---------------------------- MODULE Spec2Model ----------------------------
(***************************************************************************)
(* A model of the ai_forensics GGUF scan path:                             *)
(*   Analyzer.run -> GGUFAnalyzer._perform_analysis                        *)
(*                -> parse_gguf_versioned -> _parse_by_version             *)
(*                -> _parse_kv / _parse_tensor_info -> byte readers        *)
(* Buffers are sequences of bytes (0..255); offsets are 0-based as in the  *)
(* Python source, so byte `off` of `buf` is buf[off + 1].  A Python        *)
(* exception is a result record whose `err` field names the exception      *)
(* class; "none" means the call returned.                                  *)
(***************************************************************************)
EXTENDS Integers, Sequences, FiniteSets, TLC

VARIABLES
    buf,      \* the mapped file's bytes (MappedFile.view)
    stages,   \* the stage list handed to Analyzer.run
    pc,       \* "ready" before Analyzer.run, "done" after it returned or raised
    report,   \* the AnalysisReport built by Analyzer.run
    parsed,   \* what parse_gguf_versioned did inside the run (returned / raised)
    raised    \* the exception that left Analyzer.run ("none": it returned)

vars == <<buf, stages, pc, report, parsed, raised>>

---------------------------------------------------------------------------
(* Bounds of the explored input space.                                     *)

\* largest number of KV records a generated file declares
MaxKV == 1
\* largest number of tensor-info records a generated file declares
MaxTensors == 1
\* largest number of bytes a generated file carries after its aligned data offset
MaxData == 2

---------------------------------------------------------------------------
(* GGUF value type codes and fixed widths.                                 *)

T_UINT8 == 0
T_INT8 == 1
T_UINT16 == 2
T_INT16 == 3
T_UINT32 == 4
T_INT32 == 5
T_FLOAT32 == 6
T_BOOL == 7
T_STRING == 8
T_ARRAY == 9
T_UINT64 == 10
T_INT64 == 11
T_FLOAT64 == 12

NUMERIC_SIZES ==
    (T_UINT8 :> 1) @@ (T_INT8 :> 1) @@ (T_UINT16 :> 2) @@ (T_INT16 :> 2) @@
    (T_UINT32 :> 4) @@ (T_INT32 :> 4) @@ (T_FLOAT32 :> 4) @@
    (T_UINT64 :> 8) @@ (T_INT64 :> 8) @@ (T_FLOAT64 :> 8)

\* alignment = 32 when general.alignment is absent or unusable
DefaultAlignment == 32

\* b"GGUF"
Magic == <<71, 71, 85, 70>>

GeneralAlignmentKey == "general.alignment"

---------------------------------------------------------------------------
(* Python str values.  A decoded string is its sequence of code points;     *)
(* text(s) is the same string as a TLA+ string, used where the source       *)
(* formats it into a name or looks it up in a dict.  Printable ASCII maps    *)
(* to itself, every other code point to an escape, so text is injective on  *)
(* the strings the model meets.                                             *)

\* The printable ASCII characters, code 32 first ('"', '\' and '`' are escaped by chr).
Printable ==
    <<" ", "!", "?", "#", "$", "%", "&", "'", "(", ")", "*", "+", ",", "-", ".", "/",
      "0", "1", "2", "3", "4", "5", "6", "7", "8", "9", ":", ";", "<", "=", ">", "?",
      "@", "A", "B", "C", "D", "E", "F", "G", "H", "I", "J", "K", "L", "M", "N", "O",
      "P", "Q", "R", "S", "T", "U", "V", "W", "X", "Y", "Z", "[", "?", "]", "^", "_",
      "?", "a", "b", "c", "d", "e", "f", "g", "h", "i", "j", "k", "l", "m", "n", "o",
      "p", "q", "r", "s", "t", "u", "v", "w", "x", "y", "z", "{", "|", "}", "~">>

chr(c) == IF c >= 32 /\ c <= 126 /\ c \notin {34, 92, 96} THEN Printable[c - 31]
          ELSE "<U+" \o ToString(c) \o ">"

RECURSIVE text(_)
text(s) == IF s = <<>> THEN "" ELSE chr(Head(s)) \o text(Tail(s))

---------------------------------------------------------------------------
(* Result records of the readers.                                          *)

Ok(v, off) == [err |-> "none", msg |-> "", v |-> v, off |-> off, oob |-> FALSE]

Raise(err, msg, off, oob) == [err |-> err, msg |-> msg, v |-> 0, off |-> off, oob |-> oob]

\* The rest of a function after a call that may raise: the exception propagates,
\* a returned result r is handed to the continuation K.
Bind(r, K(_)) == IF r.err # "none" THEN r ELSE K(r)

\* The rest of a function after an assignment x = v.
With(v, K(_)) == K(v)

Slice(b, off, n) == SubSeq(b, off + 1, off + n)

Rev(s) == [i \in 1..Len(s) |-> s[Len(s) + 1 - i]]

\* The unsigned value of bytes given most significant first.
RECURSIVE FromBigEndian(_)
FromBigEndian(bs) ==
    IF bs = <<>> THEN 0
    ELSE FromBigEndian(SubSeq(bs, 1, Len(bs) - 1)) * 256 + bs[Len(bs)]

\* The value of a sequence of bits, most significant first.
RECURSIVE FromBigEndianBits(_)
FromBigEndianBits(bits) ==
    IF bits = <<>> THEN 0
    ELSE FromBigEndianBits(SubSeq(bits, 1, Len(bits) - 1)) * 2 + bits[Len(bits)]

\* int.from_bytes(bs, "little" | "big", signed=...): two's complement when signed.
int_from_bytes(bs, endian, signed) ==
    LET be == IF endian = "LE" THEN Rev(bs) ELSE bs
    IN  IF bs = <<>> THEN 0
        ELSE IF signed /\ be[1] >= 128
             THEN FromBigEndian(<<be[1] - 256>> \o Tail(be))
             ELSE FromBigEndian(be)

\* struct.unpack_from(fmt, buf, off) for one integer of `size` bytes: struct.error
\* when the buffer holds fewer than off + size bytes.
unpack(b, off, size, signed, endian) ==
    IF off + size > Len(b)
    THEN Raise("struct.error", "unpack_from requires a bigger buffer", off, TRUE)
    ELSE Ok(int_from_bytes(Slice(b, off, size), endian, signed), off + size)

u32(b, off, endian) == unpack(b, off, 4, FALSE, endian)

i32(b, off, endian) == unpack(b, off, 4, TRUE, endian)

u64(b, off, endian) == unpack(b, off, 8, FALSE, endian)

\* struct "<q" / ">q" of the v2/v3 header counts
i64(b, off, endian) == unpack(b, off, 8, TRUE, endian)

bytes_(b, off, n) ==
    IF off + n > Len(b)
    THEN Raise("GGUFParseError", "Read beyond EOF", off, TRUE)
    ELSE Ok(Slice(b, off, n), off + n)

---------------------------------------------------------------------------
(* bytes.decode("utf-8", "strict"): the code points, or UnicodeDecodeError. *)

IsCont(x) == x >= 128 /\ x <= 191

\* The number of bytes of the well-formed UTF-8 sequence starting at bs[i], 0 if none.
Utf8Len(bs, i) ==
    LET n  == Len(bs)
        b0 == bs[i]
        c(k) == IF i + k <= n THEN bs[i + k] ELSE 0
    IN  IF b0 <= 127 THEN 1
        ELSE IF b0 >= 194 /\ b0 <= 223
             THEN IF IsCont(c(1)) THEN 2 ELSE 0
        ELSE IF b0 >= 224 /\ b0 <= 239
             THEN IF /\ IsCont(c(1)) /\ IsCont(c(2))
                     /\ (b0 = 224 => c(1) >= 160)
                     /\ (b0 = 237 => c(1) <= 159)
                  THEN 3 ELSE 0
        ELSE IF b0 >= 240 /\ b0 <= 244
             THEN IF /\ IsCont(c(1)) /\ IsCont(c(2)) /\ IsCont(c(3))
                     /\ (b0 = 240 => c(1) >= 144)
                     /\ (b0 = 244 => c(1) <= 143)
                  THEN 4 ELSE 0
        ELSE 0

CodePoint(bs, i, k) ==
    IF k = 1 THEN bs[i]
    ELSE IF k = 2 THEN (bs[i] - 192) * 64 + (bs[i + 1] - 128)
    ELSE IF k = 3 THEN ((bs[i] - 224) * 64 + (bs[i + 1] - 128)) * 64 + (bs[i + 2] - 128)
    ELSE (((bs[i] - 240) * 64 + (bs[i + 1] - 128)) * 64 + (bs[i + 2] - 128)) * 64
         + (bs[i + 3] - 128)

\* The end of the run of ASCII bytes that starts at bs[i]: the first position after
\* i that holds another byte or lies beyond the sequence.
AsciiEnd(bs, i) ==
    CHOOSE j \in (i + 1)..(Len(bs) + 1) :
        (j = Len(bs) + 1 \/ bs[j] > 127) /\ \A k \in i..(j - 1) : bs[k] <= 127

\* A run of ASCII bytes decodes to itself and is taken in one step.
RECURSIVE Utf8From(_, _, _)
Utf8From(bs, i, acc) ==
    IF i > Len(bs) THEN [ok |-> TRUE, s |-> acc]
    ELSE IF bs[i] <= 127
    THEN Utf8From(bs, AsciiEnd(bs, i), acc \o SubSeq(bs, i, AsciiEnd(bs, i) - 1))
    ELSE LET k == Utf8Len(bs, i)
         IN  IF k = 0 THEN [ok |-> FALSE, s |-> <<>>]
             ELSE Utf8From(bs, i + k, Append(acc, CodePoint(bs, i, k)))

decode_utf8(bs) == Utf8From(bs, 1, <<>>)

\* _str: a length prefix (u32 in v1, u64 in v2/v3), that many bytes, decoded strictly.
str_(b, off, endian, len_fmt) ==
    Bind(IF len_fmt = "u32" THEN u32(b, off, endian) ELSE u64(b, off, endian),
         LAMBDA ln :
    Bind(bytes_(b, ln.off, ln.v), LAMBDA s :
    With(decode_utf8(s.v), LAMBDA d :
        IF d.ok THEN Ok(d.s, s.off)
        ELSE Raise("UnicodeDecodeError", "'utf-8' codec can't decode", s.off, FALSE))))

\* _align_up(x, a) = (x + (a - 1)) & ~(a - 1) on Python's unbounded integers.  For a
\* power of two a the mask clears the low bits: the result is the smallest multiple
\* of a that is >= x.  For a = 0 the mask ~(-1) is 0 and the result is 0.
IsPow2(a) == a > 0 /\ \E k \in 0..30 : a = 2 ^ k

\* x & ~m for x >= 0, m >= 0: clear in x the bits set in m.
RECURSIVE BitClear(_, _)
BitClear(x, m) ==
    IF x = 0 THEN 0
    ELSE 2 * BitClear(x \div 2, m \div 2) + (IF x % 2 = 1 /\ m % 2 = 0 THEN 1 ELSE 0)

align_up(x, a) ==
    IF a = 0 THEN 0
    ELSE BitClear(x + (a - 1), a - 1)

---------------------------------------------------------------------------
(* Dataclass constructors (model_formats/gguf/gguf.py).  A @dataclass       *)
(* without defaults requires every declared field: a call that omits one    *)
(* raises TypeError before any object exists.                               *)

GGUFKV_fields == {"key", "type", "is_array", "value", "offset_start", "offset_end"}

GGUFTensorInfo_fields == {"name", "n_dims", "dims", "ggml_type", "offset"}

GGUFModel_fields ==
    {"version", "endian", "alignment", "n_kv", "n_tensors", "kv", "tensors",
     "header_end_offset", "kv_end_offset", "tensor_info_end_offset",
     "data_offset", "file_size"}

\* The keyword arguments each call site passes.
GGUFKV_call == {"key", "type", "is_array", "value"}

GGUFTensorInfo_call == {"name", "n_dims", "dims", "ggml_type", "offset"}

GGUFModel_call ==
    {"version", "endian", "alignment", "n_kv", "n_tensors", "kv", "tensors",
     "data_offset", "file_size"}

\* cls(**given): the object, or TypeError when a required field is missing or an
\* unexpected keyword is passed.
construct(cls, fields, given, obj, off) ==
    IF fields \ given # {}
    THEN Raise("TypeError",
               cls \o ".__init__() missing " \o ToString(Cardinality(fields \ given))
                   \o " required positional arguments", off, FALSE)
    ELSE IF given \ fields # {}
    THEN Raise("TypeError", cls \o ".__init__() got an unexpected keyword argument",
               off, FALSE)
    ELSE Ok(obj, off)

---------------------------------------------------------------------------
(* _parse_kv                                                                *)

\* for _ in range(count): s, off = _str(...); vals.append(s)
RECURSIVE str_array(_, _, _, _, _, _)
str_array(b, off, endian, size_fmt, count, vals) ==
    IF count = 0 THEN Ok(vals, off)
    ELSE Bind(str_(b, off, endian, size_fmt), LAMBDA s :
              str_array(b, s.off, endian, size_fmt, count - 1, Append(vals, s.v)))

\* The value(s) of one KV record, as [kind, data]: kind "str" | "strs" | "bool" |
\* "bools" | "bytes" tells the Python type (str, list, bool, list, bytes).
kv_value(b, off, endian, size_fmt, elem_type, is_array, count) ==
    IF elem_type = T_STRING
    THEN IF is_array
         THEN Bind(str_array(b, off, endian, size_fmt, count, <<>>), LAMBDA r :
                   Ok([kind |-> "strs", data |-> r.v], r.off))
         ELSE Bind(str_(b, off, endian, size_fmt), LAMBDA s :
                   Ok([kind |-> "str", data |-> s.v], s.off))
    ELSE IF elem_type = T_BOOL
    THEN Bind(bytes_(b, off, IF is_array THEN count ELSE 1), LAMBDA raw :
              IF is_array
              THEN Ok([kind |-> "bools",
                       data |-> [i \in 1..Len(raw.v) |-> raw.v[i] # 0]], raw.off)
              ELSE Ok([kind |-> "bool", data |-> <<raw.v[1] # 0>>], raw.off))
    ELSE IF elem_type \in DOMAIN NUMERIC_SIZES
    THEN Bind(bytes_(b, off, NUMERIC_SIZES[elem_type] * count), LAMBDA raw :
              Ok([kind |-> "bytes", data |-> raw.v], raw.off))
    ELSE Raise("GGUFParseError", "Unknown GGUF value type " \o ToString(elem_type),
               off, FALSE)

parse_kv(b, off0, endian, size_fmt) ==
    Bind(str_(b, off0, endian, size_fmt), LAMBDA key :
    Bind(i32(b, key.off, endian), LAMBDA type_code :
    With(type_code.v = T_ARRAY, LAMBDA is_array :
    Bind(IF is_array THEN i32(b, type_code.off, endian) ELSE type_code, LAMBDA elem :
    Bind(IF is_array
         THEN (IF size_fmt = "u32" THEN u32(b, elem.off, endian)
                                   ELSE u64(b, elem.off, endian))
         ELSE Ok(1, elem.off), LAMBDA count :
    Bind(kv_value(b, count.off, endian, size_fmt, elem.v, is_array, count.v),
         LAMBDA value :
        construct("GGUFKV", GGUFKV_fields, GGUFKV_call,
                  [key |-> key.v, type |-> elem.v, is_array |-> is_array,
                   value |-> value.v], value.off)))))))

---------------------------------------------------------------------------
(* _parse_tensor_info                                                       *)

RECURSIVE read_dims(_, _, _, _, _)
read_dims(b, off, endian, n, dims) ==
    IF n = 0 THEN Ok(dims, off)
    ELSE Bind(u64(b, off, endian), LAMBDA d :
              read_dims(b, d.off, endian, n - 1, Append(dims, d.v)))

parse_tensor_info(b, off0, endian, size_fmt) ==
    Bind(str_(b, off0, endian, size_fmt), LAMBDA name :
    Bind(u32(b, name.off, endian), LAMBDA n_dims :
    Bind(read_dims(b, n_dims.off, endian, n_dims.v, <<>>), LAMBDA dims :
    Bind(i32(b, dims.off, endian), LAMBDA ggml_type :
    Bind(u64(b, ggml_type.off, endian), LAMBDA rel_off :
        construct("GGUFTensorInfo", GGUFTensorInfo_fields, GGUFTensorInfo_call,
                  [name |-> name.v, n_dims |-> n_dims.v, dims |-> dims.v,
                   ggml_type |-> ggml_type.v, offset |-> rel_off.v], rel_off.off))))))

---------------------------------------------------------------------------
(* _parse_by_version                                                        *)

\* kv[item.key] = item on an insertion-ordered dict, held as a sequence of items with
\* distinct keys: a repeated key keeps its first position and takes the new item.
dict_set(kv, item) ==
    IF \E i \in 1..Len(kv) : kv[i].key = item.key
    THEN [i \in 1..Len(kv) |-> IF kv[i].key = item.key THEN item ELSE kv[i]]
    ELSE Append(kv, item)

\* for _ in range(n_kv): item, off = _parse_kv(...); kv[item.key] = item
RECURSIVE kv_loop(_, _, _, _, _, _)
kv_loop(b, off, endian, size_fmt, n, kv) ==
    IF n = 0 THEN Ok(kv, off)
    ELSE Bind(parse_kv(b, off, endian, size_fmt), LAMBDA item :
              kv_loop(b, item.off, endian, size_fmt, n - 1, dict_set(kv, item.v)))

\* for _ in range(n_tensors): ti, off = _parse_tensor_info(...); tensors.append(ti)
RECURSIVE tensor_loop(_, _, _, _, _, _)
tensor_loop(b, off, endian, size_fmt, n, tensors) ==
    IF n = 0 THEN Ok(tensors, off)
    ELSE Bind(parse_tensor_info(b, off, endian, size_fmt), LAMBDA ti :
              tensor_loop(b, ti.off, endian, size_fmt, n - 1, Append(tensors, ti.v)))

\* alignment = 32 unless kv["general.alignment"].value is bytes of length 4 or 8
resolve_alignment(kv, endian) ==
    IF \E i \in 1..Len(kv) : text(kv[i].key) = GeneralAlignmentKey
    THEN LET v == (CHOOSE i \in 1..Len(kv) : text(kv[i].key) = GeneralAlignmentKey)
             val == kv[v].value
         IN  IF val.kind = "bytes" /\ Len(val.data) \in {4, 8}
             THEN int_from_bytes(val.data, endian, FALSE)
             ELSE DefaultAlignment
    ELSE DefaultAlignment

data_beyond_eof_mut(data_start, file_size) == FALSE

\* data_start > file_size
data_beyond_eof(data_start, file_size) == data_start > file_size

\* _u32 for the v1 counts, struct "q" for the v2/v3 counts
count_field(b, off, size_fmt, endian) ==
    IF size_fmt = "u32" THEN u32(b, off, endian) ELSE i64(b, off, endian)

parse_by_version(b, file_size, version, endian) ==
    With(IF version = 1 THEN "u32" ELSE "u64", LAMBDA size_fmt :
    Bind(count_field(b, 8, size_fmt, endian), LAMBDA n_tensors :
    Bind(count_field(b, n_tensors.off, size_fmt, endian), LAMBDA n_kv :
    IF n_tensors.v < 0 \/ n_kv.v < 0
    THEN Raise("GGUFParseError", "Negative counts in header", n_kv.off, FALSE)
    ELSE
    Bind(kv_loop(b, n_kv.off, endian, size_fmt, n_kv.v, <<>>), LAMBDA kv :
    With(resolve_alignment(kv.v, endian), LAMBDA alignment :
    Bind(tensor_loop(b, kv.off, endian, size_fmt, n_tensors.v, <<>>), LAMBDA tensors :
    With(align_up(tensors.off, alignment), LAMBDA data_start :
        IF data_beyond_eof(data_start, file_size)
        THEN Raise("GGUFParseError", "Data section offset beyond EOF", tensors.off, FALSE)
        ELSE construct("GGUFModel", GGUFModel_fields, GGUFModel_call,
                       [version |-> version, endian |-> endian, alignment |-> alignment,
                        n_kv |-> n_kv.v, n_tensors |-> n_tensors.v, kv |-> kv.v,
                        tensors |-> tensors.v, data_offset |-> data_start,
                        file_size |-> file_size], tensors.off))))))))

---------------------------------------------------------------------------
(* parse_gguf_versioned                                                     *)

version_le(b) == int_from_bytes(Slice(b, 4, 4), "LE", FALSE)

\* A big-endian reading that is the little-endian one again.
version_be_mut(b) == int_from_bytes(Slice(b, 4, 4), "LE", FALSE)

version_be(b) == int_from_bytes(Slice(b, 4, 4), "BE", FALSE)

plausible_mut(v) == 0 <= v /\ v <= 3

\* v in (1, 2, 3)
plausible(v) == 1 <= v /\ v <= 3

\* A GGUFParsed value (err = "none"), or the exception that left the parser.  The
\* Optional model is a sequence of at most one model; endian is "None" when absent.
Parsed(model, mismatches, endian) ==
    [err |-> "none", msg |-> "", model |-> model, mismatches |-> mismatches,
     endian |-> endian, oob |-> FALSE]

ParseRaised(r) ==
    [err |-> r.err, msg |-> r.msg, model |-> <<>>, mismatches |-> <<>>,
     endian |-> "None", oob |-> r.oob]

\* The exception classes attempt() turns into a VersionMismatch.
attempt_catches == {"GGUFParseError"}

\* The loop over (("LE", version_le), ("BE", version_be)) from hypothesis i on.
RECURSIVE try_hypotheses(_, _, _, _, _, _)
try_hypotheses(b, file_size, hyps, i, tried, mismatches) ==
    IF i > Len(hyps)
    THEN Parsed(<<>>,
                IF tried THEN mismatches
                ELSE Append(mismatches,
                            [version |-> "LE=" \o ToString(hyps[1].v) \o "/BE="
                                            \o ToString(hyps[2].v),
                             reason |-> "Unsupported version field; not in {1,2,3}"]),
                "None")
    ELSE IF ~plausible(hyps[i].v)
    THEN try_hypotheses(b, file_size, hyps, i + 1, tried, mismatches)
    ELSE With(parse_by_version(b, file_size, hyps[i].v, hyps[i].e), LAMBDA m :
             IF m.err = "none" THEN Parsed(<<m.v>>, <<>>, hyps[i].e)
             ELSE IF m.err \in attempt_catches
             THEN try_hypotheses(b, file_size, hyps, i + 1, TRUE,
                      Append(mismatches,
                             [version |-> "v" \o ToString(hyps[i].v) \o "-" \o hyps[i].e,
                              reason |-> m.msg]))
             ELSE ParseRaised(m))

\* len(buf) < 8
too_small(b) == Len(b) < 8

bad_magic_mut(b) == FALSE

\* bytes(buf[:4]) != b"GGUF"
bad_magic(b) == Slice(b, 0, 4) # Magic

parse_gguf_versioned(b, file_size) ==
    IF too_small(b)
    THEN ParseRaised(Raise("GGUFParseError", "File too small for GGUF header", 0, FALSE))
    ELSE IF bad_magic(b)
    THEN ParseRaised(Raise("GGUFParseError", "Invalid magic; not GGUF", 0, FALSE))
    ELSE try_hypotheses(b, file_size,
                        <<[e |-> "LE", v |-> version_le(b)],
                          [e |-> "BE", v |-> version_be(b)]>>,
                        1, FALSE, <<>>)

---------------------------------------------------------------------------
(* AnalysisReport (analysis/base.py)                                        *)

NoContext == [kind |-> "none"]

Finding(name, ok, details, context) ==
    [name |-> name, ok |-> ok, details |-> details, context |-> context]

add(rep, name, ok, details, context) ==
    [rep EXCEPT !.findings = Append(@, Finding(name, ok, details, context))]

add_reason(rep, target, reason) ==
    [rep EXCEPT !.reason_matrix = Append(@, [target |-> target, reason |-> reason])]

\* A flag that looks at the latest finding only.
report_ok_mut(rep) ==
    IF rep.findings # <<>> THEN rep.findings[Len(rep.findings)].ok ELSE TRUE

\* AnalysisReport.ok
report_ok(rep) ==
    IF rep.findings # <<>> THEN \A i \in 1..Len(rep.findings) : rep.findings[i].ok
    ELSE TRUE

\* for mm in parsed.mismatches: report.add_reason(f"gguf {mm.version}", mm.reason)
RECURSIVE add_mismatches(_, _, _)
add_mismatches(rep, mismatches, i) ==
    IF i > Len(mismatches) THEN rep
    ELSE add_mismatches(add_reason(rep, "gguf " \o mismatches[i].version,
                                   mismatches[i].reason),
                        mismatches, i + 1)

---------------------------------------------------------------------------
(* Quantization registry (gguf_quantization.py)                             *)

\* The values of the GGMLType enum.
GGMLTypeValues == {0, 1, 2, 3} \cup (6..21)

\* QUANTIZATION_MAP: block_size and bits_per_weight as the exact fraction num/den.
QUANTIZATION_MAP ==
    (0 :> [block_size |-> 1, num |-> 32, den |-> 1]) @@
    (1 :> [block_size |-> 1, num |-> 16, den |-> 1]) @@
    (2 :> [block_size |-> 32, num |-> 9, den |-> 2]) @@
    (8 :> [block_size |-> 32, num |-> 17, den |-> 2]) @@
    (10 :> [block_size |-> 256, num |-> 85, den |-> 32]) @@
    (11 :> [block_size |-> 256, num |-> 117, den |-> 32]) @@
    (12 :> [block_size |-> 256, num |-> 149, den |-> 32]) @@
    (13 :> [block_size |-> 256, num |-> 181, den |-> 32]) @@
    (14 :> [block_size |-> 256, num |-> 217, den |-> 32]) @@
    (15 :> [block_size |-> 256, num |-> 281, den |-> 32])

\* GGMLType(self.bits_per_weight): the enum member with that value, else ValueError.
ggml_type_of_value(num, den) == num % den = 0 /\ (num \div den) \in GGMLTypeValues

\* QuantizationInfo.get_expected_size: the byte count, -1 when n_elements is not a
\* multiple of the block size, or the ValueError of the enum lookup on
\* bits_per_weight.  (The "K"/"Q" name test only runs when that lookup succeeds; no
\* registered block type has an integral bits_per_weight.)
get_expected_size(info, n_elements) ==
    IF info.block_size = 0 \/ info.num = 0 THEN Ok(0, 0)
    ELSE IF info.block_size > 1
    THEN IF n_elements % info.block_size # 0 THEN Ok(-1, 0)
         ELSE IF ~ggml_type_of_value(info.num, info.den)
         THEN Raise("ValueError", "not a valid GGMLType", 0, FALSE)
         ELSE Ok(((n_elements \div info.block_size)
                    * (info.block_size * info.num + 16 * info.den)) \div (8 * info.den), 0)
    ELSE Ok((n_elements * info.num) \div (8 * info.den), 0)

\* GGUFTensorInfo.n_elements
RECURSIVE product(_)
product(dims) == IF dims = <<>> THEN 1 ELSE dims[1] * product(Tail(dims))

n_elements(ti) == IF ti.dims = <<>> THEN 0 ELSE product(ti.dims)

\* ti.ggml_type.name: the parser stores the plain int read by _i32, which has no
\* attribute `name`.
ggml_type_name(ggml_type) ==
    Raise("AttributeError", "'int' object has no attribute 'name'", 0, FALSE)

---------------------------------------------------------------------------
(* GGUFAnalyzer._perform_analysis: the structure checks                     *)

contains(seq, x) == \E i \in 1..Len(seq) : seq[i] = x

\* sorted(model.tensors, key=lambda t: t.offset): stable, ascending.
insert_by_offset(order, t) ==
    LET k == Cardinality({i \in 1..Len(order) : order[i].offset <= t.offset})
    IN  SubSeq(order, 1, k) \o <<t>> \o SubSeq(order, k + 1, Len(order))

RECURSIVE sorted_by_offset(_, _)
sorted_by_offset(tensors, order) ==
    IF tensors = <<>> THEN order
    ELSE sorted_by_offset(Tail(tensors), insert_by_offset(order, Head(tensors)))

\* in_file = 0 <= start <= end <= report.file_size
in_file(start, end, file_size) == 0 <= start /\ start <= end /\ end <= file_size

\* size_ok = (expected_size == on_disk_size) if expected_size != -1 else False
size_ok(expected_size, on_disk_size) ==
    IF expected_size # -1 THEN expected_size = on_disk_size ELSE FALSE

\* An analysis step's outcome: the report so far and the exception, if any.
Step(rep, err, msg) == [rep |-> rep, err |-> err, msg |-> msg]

\* for i, ti in enumerate(order): ... report.add(f"tensor_layout:{ti.name}", ...)
RECURSIVE layout_loop(_, _, _, _, _)
layout_loop(rep, model, order, i, bounds) ==
    IF i > Len(order) THEN [rep |-> rep, err |-> "none", msg |-> "", bounds |-> bounds]
    ELSE LET ti == order[i]
             start == model.data_offset + ti.offset
             end == IF i + 1 <= Len(order) THEN model.data_offset + order[i + 1].offset
                    ELSE rep.file_size
             known == ti.ggml_type \in DOMAIN QUANTIZATION_MAP
             on_disk_size == end - start
             expected == IF known
                         THEN get_expected_size(QUANTIZATION_MAP[ti.ggml_type],
                                                n_elements(ti))
                         ELSE Ok(-1, 0)
             type_name == ggml_type_name(ti.ggml_type)
         IN  IF expected.err # "none"
             THEN [rep |-> rep, err |-> expected.err, msg |-> expected.msg,
                   bounds |-> bounds]
             ELSE IF type_name.err # "none"
             THEN [rep |-> rep, err |-> type_name.err, msg |-> type_name.msg,
                   bounds |-> bounds]
             ELSE layout_loop(
                      add(rep, "tensor_layout:" \o text(ti.name),
                          in_file(start, end, rep.file_size)
                              /\ size_ok(expected.v, on_disk_size),
                          "",
                          [kind |-> "tensor", start |-> start, end |-> end,
                           on_disk |-> on_disk_size,
                           expected |-> IF expected.v # -1 THEN ToString(expected.v)
                                        ELSE "N/A",
                           type |-> type_name.v, dims |-> ti.dims]),
                      model, order, i + 1,
                      Append(bounds, [name |-> ti.name, start |-> start, end |-> end]))

\* all(order[i].offset <= order[i + 1].offset for i in range(len(order) - 1))
offsets_sorted(order) ==
    \A i \in 1..(Len(order) - 1) : order[i].offset <= order[i + 1].offset

\* the loop that clears non_overlap when bounds[i].end > bounds[i + 1].start
non_overlap(bounds) ==
    ~\E i \in 1..(Len(bounds) - 1) : bounds[i].end > bounds[i + 1].start

\* The eight fixed findings that precede the tensor loop.
header_findings(rep, model) ==
    LET r1 == add(rep, "structural_integrity:magic_version", TRUE,
                  "GGUF v" \o ToString(model.version) \o " (" \o model.endian \o ")",
                  NoContext)
        r2 == add(r1, "structural_integrity:Magic_Bytes", TRUE,
                  "Region: [0, 8)", NoContext)
        r3 == add(r2, "structural_integrity:GGUF_Header", TRUE,
                  "Region: [8, " \o ToString(model.header_end_offset) \o ")", NoContext)
        r4 == add(r3, "structural_integrity:KV_Store", TRUE,
                  "Region: [" \o ToString(model.header_end_offset) \o ", "
                      \o ToString(model.kv_end_offset) \o ") (Count: "
                      \o ToString(model.n_kv) \o ")", NoContext)
        r5 == add(r4, "structural_integrity:Tensor_Info", TRUE,
                  "Region: [" \o ToString(model.kv_end_offset) \o ", "
                      \o ToString(model.tensor_info_end_offset) \o ") (Count: "
                      \o ToString(model.n_tensors) \o ")", NoContext)
        r6 == add(r5, "structural_integrity:metadata_offset_bounds",
                  model.tensor_info_end_offset <= rep.file_size,
                  "Region: [0, " \o ToString(model.tensor_info_end_offset) \o ")",
                  NoContext)
        r7 == add(r6, "structural_integrity:alignment_power_of_two",
                  IsPow2(model.alignment),
                  "alignment=" \o ToString(model.alignment), NoContext)
    IN  add(r7, "structural_integrity:data_offset_bounds",
            model.data_offset <= rep.file_size,
            "Region: [" \o ToString(model.data_offset) \o ", "
                \o ToString(rep.file_size) \o ")", NoContext)

---------------------------------------------------------------------------
(* GGUFAnalyzer._perform_kv_analysis                                        *)

KV_TYPE_MAP ==
    (T_UINT8 :> "UInt8") @@ (T_INT8 :> "Int8") @@ (T_UINT16 :> "UInt16") @@
    (T_INT16 :> "Int16") @@ (T_UINT32 :> "UInt32") @@ (T_INT32 :> "Int32") @@
    (T_UINT64 :> "UInt64") @@ (T_INT64 :> "Int64") @@ (T_FLOAT32 :> "Float32") @@
    (T_FLOAT64 :> "Float64") @@ (T_BOOL :> "Bool") @@ (T_STRING :> "String") @@
    (T_ARRAY :> "Array")

\* One KNOWN_KEYS entry: min is "" when absent, else the literal of the source;
\* multiple_of is 0 when absent.  ("pattern", "max", "required" and "default" are
\* never read by the analyzer.)
KeySpec(type, min, multiple_of) == [type |-> type, min |-> min, multiple_of |-> multiple_of]

KNOWN_KEYS ==
    ("general.architecture" :> KeySpec("String", "", 0)) @@
    ("general.alignment" :> KeySpec("UInt32", "8", 8)) @@
    ("general.quantization_version" :> KeySpec("UInt32", "1", 0)) @@
    ("general.file_type" :> KeySpec("UInt32", "", 0)) @@
    ("general.name" :> KeySpec("String", "", 0)) @@
    ("llama.context_length" :> KeySpec("UInt32", "1", 0)) @@
    ("llama.embedding_length" :> KeySpec("UInt32", "1", 0)) @@
    ("llama.block_count" :> KeySpec("UInt32", "1", 0)) @@
    ("llama.feed_forward_length" :> KeySpec("UInt32", "1", 0)) @@
    ("llama.attention.head_count" :> KeySpec("UInt32", "1", 0)) @@
    ("llama.attention.head_count_kv" :> KeySpec("UInt32", "1", 0)) @@
    ("llama.rope.dimension_count" :> KeySpec("UInt32", "1", 0)) @@
    ("llama.attention.layer_norm_rms_epsilon" :> KeySpec("Float32", "1e-9", 0)) @@
    ("llama.rope.scale" :> KeySpec("Float32", "1e-9", 0)) @@
    ("llama.expert_count" :> KeySpec("UInt32", "1", 0)) @@
    ("llama.expert_used_count" :> KeySpec("UInt32", "1", 0)) @@
    ("tokenizer.ggml.model" :> KeySpec("String", "", 0)) @@
    ("tokenizer.ggml.tokens" :> KeySpec("Array", "", 0)) @@
    ("tokenizer.ggml.scores" :> KeySpec("Array", "", 0)) @@
    ("tokenizer.ggml.merges" :> KeySpec("Array", "", 0)) @@
    ("tokenizer.ggml.bos_token_id" :> KeySpec("UInt32", "", 0)) @@
    ("tokenizer.ggml.eos_token_id" :> KeySpec("UInt32", "", 0)) @@
    ("tokenizer.chat_template" :> KeySpec("String", "", 0))

SubCheckResult(status, name, details) ==
    [status |-> status, name |-> name, details |-> details]

\* re.match(r"^[a-z0-9][a-z0-9._-]*$", key): `$` also matches before one final "\n".
key_first(c) == (c >= 97 /\ c <= 122) \/ (c >= 48 /\ c <= 57)

key_rest(c) == key_first(c) \/ c \in {46, 95, 45}

key_pattern(key) ==
    LET body == IF key # <<>> /\ key[Len(key)] = 10
                THEN SubSeq(key, 1, Len(key) - 1) ELSE key
        plain(k) == k # <<>> /\ key_first(k[1]) /\ \A i \in 2..Len(k) : key_rest(k[i])
    IN  plain(key) \/ plain(body)

\* The bits of an IEEE-754 value stored little-endian, most significant bit first.
RECURSIVE byte_bits(_, _)
byte_bits(x, n) == IF n = 0 THEN <<>> ELSE byte_bits(x \div 2, n - 1) \o <<x % 2>>

RECURSIVE bits_of(_)
bits_of(be) == IF be = <<>> THEN <<>> ELSE byte_bits(Head(be), 8) \o bits_of(Tail(be))

RECURSIVE lex_less(_, _)
lex_less(a, b) ==
    IF a = <<>> THEN FALSE
    ELSE IF Head(a) # Head(b) THEN Head(a) < Head(b)
    ELSE lex_less(Tail(a), Tail(b))

\* The bit pattern (big-endian bytes) of the smallest value of the width that is not
\* below the literal: float32(1e-9) rounds below the double 1e-9, so its successor.
float_threshold(min, size) ==
    IF size = 4
    THEN (IF min = "1e-9" THEN <<48, 137, 112, 96>>
          ELSE IF min = "1" THEN <<63, 128, 0, 0>> ELSE <<65, 0, 0, 0>>)
    ELSE (IF min = "1e-9" THEN <<62, 17, 46, 11, 232, 38, 214, 149>>
          ELSE IF min = "1" THEN <<63, 240, 0, 0, 0, 0, 0, 0>>
          ELSE <<64, 32, 0, 0, 0, 0, 0, 0>>)

float_parts(raw) ==
    LET bits == bits_of(Rev(raw))
        eb == IF Len(raw) = 4 THEN 8 ELSE 11
    IN  [sign |-> bits[1],
         exp |-> FromBigEndianBits(SubSeq(bits, 2, 1 + eb)),
         emax |-> 2 ^ eb - 1,
         bias |-> 2 ^ (eb - 1) - 1,
         frac |-> SubSeq(bits, 2 + eb, Len(bits)),
         mag |-> Tail(bits)]

float_is_nan(raw) ==
    LET f == float_parts(raw) IN f.exp = f.emax /\ \E i \in 1..Len(f.frac) : f.frac[i] = 1

\* decoded_value < spec["min"] for a float decoded from `raw` (min > 0)
float_lt(raw, min) ==
    LET f == float_parts(raw)
    IN  IF float_is_nan(raw) THEN FALSE
        ELSE IF f.sign = 1 THEN TRUE
        ELSE lex_less(f.mag, Tail(bits_of(float_threshold(min, Len(raw)))))

\* decoded_value % 8 != 0 for a float >= 8 (or NaN): NaN and inf give NaN, which is
\* != 0; a finite value is a multiple of 8 iff no fraction bit weighs less than 8.
float_not_multiple_of_8(raw) ==
    LET f == float_parts(raw)
        e == f.exp - f.bias
    IN  IF f.exp = f.emax THEN TRUE
        ELSE \E k \in 1..Len(f.frac) : f.frac[k] = 1 /\ e - k < 3

\* The integer a min literal is compared as: v < 1e-9 iff v < 1 for an integer v.
min_as_int(min) == IF min = "8" THEN 8 ELSE 1

\* Step 3 of the KV loop: the decoded value, or the exception the try block turns
\* into a FAIL sub-check.  kind "none" is Python's None.
kv_decode(v) ==
    LET is_numeric == v.type \notin {T_STRING, T_BOOL, T_ARRAY}
    IN  IF is_numeric /\ v.value.kind = "bytes"
        THEN IF v.type \in {T_FLOAT32, T_FLOAT64}
             THEN IF Len(v.value.data) # (IF v.type = T_FLOAT32 THEN 4 ELSE 8)
                  THEN Raise("struct.error", "unpack requires a buffer of that size",
                             0, FALSE)
                  ELSE Ok([kind |-> "float", data |-> v.value.data], 0)
             ELSE Ok([kind |-> "int",
                      data |-> int_from_bytes(v.value.data, "LE",
                                              v.type \in {T_INT8, T_INT16, T_INT32,
                                                          T_INT64})], 0)
        ELSE IF ~v.is_array
        THEN (IF v.value.kind = "bytes"
              THEN LET d == decode_utf8(v.value.data)
                   IN  IF d.ok THEN Ok([kind |-> "str", data |-> d.s], 0)
                       ELSE Raise("UnicodeDecodeError", "'utf-8' codec can't decode",
                                  0, FALSE)
              ELSE IF v.value.kind = "bool"
              THEN Ok([kind |-> "bool", data |-> v.value.data[1]], 0)
              ELSE Ok([kind |-> v.value.kind, data |-> v.value.data], 0))
        ELSE Ok([kind |-> "none", data |-> 0], 0)

\* decoded_value < spec["min"]: TypeError for a str, a bool compares as 0 / 1.
below_min(d, min) ==
    IF d.kind = "int" THEN Ok(d.data < min_as_int(min), 0)
    ELSE IF d.kind = "bool" THEN Ok((IF d.data THEN 1 ELSE 0) < min_as_int(min), 0)
    ELSE IF d.kind = "float" THEN Ok(float_lt(d.data, min), 0)
    ELSE Raise("TypeError", "'<' not supported between instances", 0, FALSE)

\* decoded_value % spec["multiple_of"] != 0 (the only multiple_of in the registry is 8)
not_multiple(d, m) ==
    IF d.kind = "int" THEN Ok(d.data % m # 0, 0)
    ELSE IF d.kind = "bool" THEN Ok((IF d.data THEN 1 ELSE 0) % m # 0, 0)
    ELSE IF d.kind = "float" THEN Ok(float_not_multiple_of_8(d.data), 0)
    ELSE Raise("TypeError", "not all arguments converted during string formatting",
               0, FALSE)

\* Step 4 of the KV loop: the registry sub-checks, or the exception of a comparison.
registry_checks(v, type_name, d) ==
    IF text(v.key) \notin DOMAIN KNOWN_KEYS
    THEN Ok(<<SubCheckResult("WARN", "unknown_key",
                  "This key is not part of the official GGUF specification.")>>, 0)
    ELSE LET spec == KNOWN_KEYS[text(v.key)]
             head == <<SubCheckResult("PASS", "known_key",
                           "Key is a standard GGUF-defined key."),
                       IF spec.type = type_name
                       THEN SubCheckResult("PASS", "spec_type",
                                "Declared type '" \o type_name \o "' matches spec.")
                       ELSE SubCheckResult("FAIL", "spec_type",
                                "Type mismatch. Spec requires '" \o spec.type
                                    \o "', but file has '" \o type_name \o "'.")>>
             lt == IF spec.min # "" THEN below_min(d, spec.min) ELSE Ok(FALSE, 0)
             nm == IF spec.multiple_of # 0 THEN not_multiple(d, spec.multiple_of)
                   ELSE Ok(FALSE, 0)
         IN  IF d.kind = "none" THEN Ok(head, 0)
             ELSE IF lt.err # "none" THEN lt
             ELSE IF lt.v
             THEN Ok(Append(head, SubCheckResult("FAIL", "range",
                                      "Spec requires a minimum of " \o spec.min)), 0)
             ELSE IF nm.err # "none" THEN nm
             ELSE IF nm.v
             THEN Ok(Append(head, SubCheckResult("FAIL", "range",
                                      "Spec requires a multiple of "
                                          \o ToString(spec.multiple_of))), 0)
             ELSE Ok(Append(head, SubCheckResult("PASS", "range",
                                      "Decoded value is within the specified range.")), 0)

\* Step 5 of the KV loop.
duplicate_checks(v, seen_keys) ==
    IF \E i \in 1..Len(seen_keys) : seen_keys[i].key = v.key
    THEN LET prev == seen_keys[CHOOSE i \in 1..Len(seen_keys) : seen_keys[i].key = v.key]
         IN  IF prev.value = v.value
             THEN <<SubCheckResult("WARN", "duplicate",
                        "Key is a non-conflicting duplicate of a previously seen key.")>>
             ELSE <<SubCheckResult("FAIL", "duplicate",
                        "Key is a conflicting duplicate of a previously seen key.")>>
    ELSE <<>>

final_status(sub_checks) ==
    IF \E i \in 1..Len(sub_checks) : sub_checks[i].status = "FAIL" THEN "FAIL"
    ELSE IF \E i \in 1..Len(sub_checks) : sub_checks[i].status = "WARN" THEN "WARN"
    ELSE "PASS"

\* for v in model.kv.values(): ... report.add(f"kv_analysis:{v.key}", ...)
RECURSIVE kv_analysis_loop(_, _, _, _)
kv_analysis_loop(rep, items, i, seen_keys) ==
    IF i > Len(items) THEN Step(rep, "none", "")
    ELSE
    With(items[i], LAMBDA v :
    With(IF v.type \in DOMAIN KV_TYPE_MAP THEN KV_TYPE_MAP[v.type] ELSE "Unknown",
         LAMBDA type_name :
    With(kv_decode(v), LAMBDA d :
    With(registry_checks(v, type_name,
                         IF d.err = "none" THEN d.v ELSE [kind |-> "none", data |-> 0]),
         LAMBDA reg :
    IF reg.err # "none" THEN Step(rep, reg.err, reg.msg)
    ELSE
    With(<<SubCheckResult("PASS", "bounds",
               "Region [" \o ToString(v.offset_start) \o ", "
                   \o ToString(v.offset_end) \o ") is within the KV block."),
           IF key_pattern(v.key)
           THEN SubCheckResult("PASS", "key_pattern",
                    "Key name '" \o text(v.key) \o "' matches the expected pattern.")
           ELSE SubCheckResult("WARN", "key_pattern",
                    "Key name '" \o text(v.key)
                        \o "' does not follow the recommended pattern."),
           IF d.err = "none"
           THEN SubCheckResult("PASS", "decode",
                    "Value was successfully decoded as " \o type_name \o " ("
                        \o ToString(v.type) \o ").")
           ELSE SubCheckResult("FAIL", "decode",
                    "Failed to decode value as " \o type_name \o ": " \o d.msg)>>
         \o reg.v \o duplicate_checks(v, seen_keys),
         LAMBDA sub_checks :
    With(final_status(sub_checks), LAMBDA status :
        kv_analysis_loop(
            add(rep, "kv_analysis:" \o text(v.key), status # "FAIL",
                "Overall Status: " \o status,
                [kind |-> "kv", sub_checks |-> sub_checks, key |-> v.key,
                 start |-> v.offset_start, end |-> v.offset_end,
                 size |-> v.offset_end - v.offset_start]),
            items, i + 1, dict_set(seen_keys, v))))))))

perform_kv_analysis(model, rep) == kv_analysis_loop(rep, model.kv, 1, <<>>)

---------------------------------------------------------------------------
(* GGUFAnalyzer._perform_analysis                                           *)

\* The quantization_profile finding, added when some tensor_layout finding carries a
\* context type; its details name the distinct types (the per-type counts are left out).
quantization_profile(rep) ==
    LET types == {rep.findings[i].context.type :
                    i \in {j \in 1..Len(rep.findings) :
                             rep.findings[j].context.kind = "tensor"}}
    IN  IF types = {} THEN rep
        ELSE add(rep, "structural_integrity:quantization_profile", TRUE,
                 ToString(types), NoContext)

\* The block under `if "structure" in report.stages_run`.
structure_checks(model, rep0) ==
    With(sorted_by_offset(model.tensors, <<>>), LAMBDA order :
    With(layout_loop(add(header_findings(rep0, model),
                         "structural_integrity:tensor_offsets_sorted",
                         offsets_sorted(order), "non-decreasing offsets", NoContext),
                     model, order, 1, <<>>), LAMBDA lay :
    IF lay.err # "none" THEN Step(lay.rep, lay.err, lay.msg)
    ELSE
    With(lay.bounds, LAMBDA bounds :
    With(IF bounds # <<>> THEN bounds[Len(bounds)].end ELSE model.data_offset,
         LAMBDA last_tensor_end :
    With(perform_kv_analysis(
             model,
             add(add(lay.rep, "structural_integrity:tensor_non_overlap",
                     non_overlap(bounds), "no overlapping tensor data regions",
                     NoContext),
                 "structural_integrity:file_address_space_boundary",
                 last_tensor_end = lay.rep.file_size,
                 "Last data address " \o ToString(last_tensor_end)
                     \o " vs file size " \o ToString(lay.rep.file_size), NoContext)),
         LAMBDA kva :
        IF kva.err # "none" THEN kva
        ELSE Step(quantization_profile(kva.rep), "none", ""))))))

\* The exception classes the try block around the parse turns into a finding.
analysis_catches == {"GGUFParseError"}

\* The outcome of _perform_analysis: the report it leaves, the parser's outcome, and
\* the exception that leaves it, if any.
Outcome(rep, p, err, msg) == [rep |-> rep, parsed |-> p, err |-> err, msg |-> msg]

perform_analysis(mv, rep) ==
    With(parse_gguf_versioned(mv, rep.file_size), LAMBDA p :
        IF p.err \in analysis_catches
        THEN Outcome(add(rep, "parse", FALSE, "GGUF parse error: " \o p.msg, NoContext),
                     p, "none", "")
        ELSE IF p.err # "none"
        THEN Outcome(rep, p, p.err, p.msg)
        ELSE IF p.model = <<>>
        THEN Outcome(add_mismatches(
                         add(rep, "parse", FALSE,
                             "No GGUF version parser accepted this file", NoContext),
                         p.mismatches, 1),
                     p, "none", "")
        ELSE IF contains(rep.stages_run, "structure")
        THEN With(structure_checks(p.model[1], rep), LAMBDA st :
                  Outcome(st.rep, p, st.err, st.msg))
        ELSE Outcome(rep, p, "none", ""))

---------------------------------------------------------------------------
(* Analyzer.run (analysis/analyzer.py)                                      *)

\* The preliminary report: stages_run keeps its default, the empty list.
new_report(file_size) ==
    [file_size |-> file_size, sha256_hex |-> "not_run", format |-> "gguf",
     findings |-> <<>>, reason_matrix |-> <<>>, stages_run |-> <<>>]

NotParsed ==
    [err |-> "not_called", msg |-> "", model |-> <<>>, mismatches |-> <<>>,
     endian |-> "None", oob |-> FALSE]

run(mv, stage_list) ==
    LET rep0 == new_report(Len(mv))
        rep1 == IF contains(stage_list, "sha256")
                THEN [rep0 EXCEPT !.sha256_hex = "hexdigest"] ELSE rep0
    IN  IF contains(stage_list, "structure")
        THEN perform_analysis(mv, rep1)
        ELSE [rep |-> rep1, parsed |-> NotParsed, err |-> "none", msg |-> ""]

---------------------------------------------------------------------------
(* The explored files: GGUF images written field by field, cut at every     *)
(* length, plus images with a foreign magic or an unsupported version.      *)

le_bytes(v, n) ==
    IF v < 0 THEN [i \in 1..n |-> 255]
    ELSE [i \in 1..n |-> IF i <= 4 THEN (v \div (256 ^ (i - 1))) % 256 ELSE 0]

enc(v, n, e) == IF e = "LE" THEN le_bytes(v, n) ELSE Rev(le_bytes(v, n))

enc_size(v, fmt, e) == enc(v, IF fmt = "u32" THEN 4 ELSE 8, e)

enc_str(s, fmt, e) == enc_size(Len(s), fmt, e) \o s

KVKinds ==
    {"u32", "alignment", "string", "bool", "u8_array", "string_array",
     "unknown_type", "bad_utf8_key", "long_key", "bad_utf8_value",
     "dup_same", "dup_diff", "chat_injection", "type_mismatch", "below_min",
     "not_multiple", "registry_array", "zero_alignment"}

\* The records one unit of the kind writes: a duplicated key takes two.
records_per(kind) == IF kind \in {"dup_same", "dup_diff"} THEN 2 ELSE 1

\* One KV record of the given kind.
\* tokenizer.ggml.tokens
TokensKey ==
    <<116, 111, 107, 101, 110, 105, 122, 101, 114, 46, 103, 103, 109, 108, 46, 116, 111,
      107, 101, 110, 115>>

kv_record(kind, fmt, e) ==
    CASE kind = "u32" -> enc_str(<<97>>, fmt, e) \o enc(T_UINT32, 4, e) \o enc(5, 4, e)
      [] kind = "alignment" ->
             enc_str(<<103, 101, 110, 101, 114, 97, 108, 46, 97, 108, 105, 103, 110,
                       109, 101, 110, 116>>, fmt, e)
                 \o enc(T_UINT32, 4, e) \o enc(64, 4, e)
      [] kind = "string" ->
             enc_str(<<97>>, fmt, e) \o enc(T_STRING, 4, e) \o enc_str(<<120>>, fmt, e)
      [] kind = "bool" -> enc_str(<<97>>, fmt, e) \o enc(T_BOOL, 4, e) \o <<1>>
      [] kind = "u8_array" ->
             enc_str(<<97>>, fmt, e) \o enc(T_ARRAY, 4, e) \o enc(T_UINT8, 4, e)
                 \o enc_size(2, fmt, e) \o <<1, 2>>
      [] kind = "string_array" ->
             enc_str(<<97>>, fmt, e) \o enc(T_ARRAY, 4, e) \o enc(T_STRING, 4, e)
                 \o enc_size(1, fmt, e) \o enc_str(<<120>>, fmt, e)
      [] kind = "unknown_type" -> enc_str(<<97>>, fmt, e) \o enc(99, 4, e) \o enc(5, 4, e)
      [] kind = "bad_utf8_key" ->
             enc_size(1, fmt, e) \o <<255>> \o enc(T_UINT32, 4, e) \o enc(5, 4, e)
      [] kind = "bad_utf8_value" ->
             enc_str(<<97>>, fmt, e) \o enc(T_STRING, 4, e) \o enc_str(<<255>>, fmt, e)
      [] kind = "dup_same" ->
             enc_str(<<97>>, fmt, e) \o enc(T_UINT32, 4, e) \o enc(5, 4, e)
                 \o enc_str(<<97>>, fmt, e) \o enc(T_UINT32, 4, e) \o enc(5, 4, e)
      [] kind = "dup_diff" ->
             enc_str(<<97>>, fmt, e) \o enc(T_UINT32, 4, e) \o enc(5, 4, e)
                 \o enc_str(<<97>>, fmt, e) \o enc(T_UINT32, 4, e) \o enc(6, 4, e)
      [] kind = "chat_injection" ->
             \* tokenizer.chat_template = "Os.System"
             enc_str(<<116, 111, 107, 101, 110, 105, 122, 101, 114, 46, 99, 104, 97,
                       116, 95, 116, 101, 109, 112, 108, 97, 116, 101>>, fmt, e)
                 \o enc(T_STRING, 4, e)
                 \o enc_str(<<79, 115, 46, 83, 121, 115, 116, 101, 109>>, fmt, e)
      [] kind = "type_mismatch" ->
             \* general.name declared UInt32
             enc_str(<<103, 101, 110, 101, 114, 97, 108, 46, 110, 97, 109, 101>>, fmt, e)
                 \o enc(T_UINT32, 4, e) \o enc(5, 4, e)
      [] kind = "below_min" ->
             \* llama.block_count = 0
             enc_str(<<108, 108, 97, 109, 97, 46, 98, 108, 111, 99, 107, 95, 99, 111,
                       117, 110, 116>>, fmt, e)
                 \o enc(T_UINT32, 4, e) \o enc(0, 4, e)
      [] kind = "not_multiple" ->
             \* general.alignment = 12
             enc_str(<<103, 101, 110, 101, 114, 97, 108, 46, 97, 108, 105, 103, 110,
                       109, 101, 110, 116>>, fmt, e)
                 \o enc(T_UINT32, 4, e) \o enc(12, 4, e)
      [] kind = "zero_alignment" ->
             \* general.alignment = 0
             enc_str(<<103, 101, 110, 101, 114, 97, 108, 46, 97, 108, 105, 103, 110,
                       109, 101, 110, 116>>, fmt, e)
                 \o enc(T_UINT32, 4, e) \o enc(0, 4, e)
      [] kind = "registry_array" ->
             \* tokenizer.ggml.tokens = ["x"]
             enc_str(TokensKey, fmt, e)
                 \o enc(T_ARRAY, 4, e) \o enc(T_STRING, 4, e)
                 \o enc_size(1, fmt, e) \o enc_str(<<120>>, fmt, e)
      [] OTHER -> enc_size(100, fmt, e) \o <<97>> \o enc(T_UINT32, 4, e) \o enc(5, 4, e)

TensorKinds == {"f32", "q4_0", "no_dims", "bad_utf8_name"}

\* One tensor-info record of the given kind at relative offset rel.
tensor_record(kind, rel, fmt, e) ==
    CASE kind = "f32" ->
             enc_str(<<116>>, fmt, e) \o enc(1, 4, e) \o enc(4, 8, e) \o enc(0, 4, e)
                 \o enc(rel, 8, e)
      [] kind = "q4_0" ->
             enc_str(<<116>>, fmt, e) \o enc(2, 4, e) \o enc(2, 8, e) \o enc(3, 8, e)
                 \o enc(2, 4, e) \o enc(rel, 8, e)
      [] kind = "no_dims" ->
             enc_str(<<117>>, fmt, e) \o enc(0, 4, e) \o enc(99, 4, e) \o enc(rel, 8, e)
      [] OTHER ->
             enc_size(1, fmt, e) \o <<255>> \o enc(0, 4, e) \o enc(0, 4, e)
                 \o enc(rel, 8, e)

RECURSIVE repeat_kv(_, _, _, _)
repeat_kv(kind, k, fmt, e) ==
    IF k = 0 THEN <<>> ELSE kv_record(kind, fmt, e) \o repeat_kv(kind, k - 1, fmt, e)

RECURSIVE repeat_tensor(_, _, _, _)
repeat_tensor(kind, k, fmt, e) ==
    IF k = 0 THEN <<>>
    ELSE repeat_tensor(kind, k - 1, fmt, e) \o tensor_record(kind, 16 * (k - 1), fmt, e)

zeros(n) == [i \in 1..n |-> 0]

Hypotheses == {[version |-> v, e |-> e] : v \in 1..3, e \in {"LE", "BE"}}

size_fmt_of(version) == IF version = 1 THEN "u32" ELSE "u64"

\* A file recipe: k_kv KV records of one kind, then k_t tensor records of one kind
\* (16 bytes apart in the data section), under header counts that may lie.
Recipe(h, n_tensors, n_kv, kv_kind, k_kv, t_kind, k_t) ==
    [h |-> h, n_tensors |-> n_tensors, n_kv |-> n_kv, kv_kind |-> kv_kind,
     k_kv |-> k_kv, t_kind |-> t_kind, k_t |-> k_t]

\* Magic, version, counts and records: the bytes up to the end of the tensor-info.
head_of(r) ==
    LET fmt == size_fmt_of(r.h.version)
    IN  Magic \o enc(r.h.version, 4, r.h.e) \o enc_size(r.n_tensors, fmt, r.h.e)
            \o enc_size(r.n_kv, fmt, r.h.e)
            \o repeat_kv(r.kv_kind, r.k_kv, fmt, r.h.e)
            \o repeat_tensor(r.t_kind, r.k_t, fmt, r.h.e)

\* The alignment the recipe's KV section declares.
alignment_of(r) == IF r.kv_kind = "alignment" /\ r.k_kv > 0 THEN 64 ELSE DefaultAlignment

\* The smallest multiple of a that is not below x.
round_up(x, a) == ((x + a - 1) \div a) * a

data_offset_of(r) == round_up(Len(head_of(r)), alignment_of(r))

\* The data section: 16 bytes per tensor, MaxData bytes when there is no tensor.
data_len_of(r) == IF r.k_t > 0 THEN 16 * r.k_t ELSE MaxData

image_of(r) ==
    head_of(r) \o zeros(data_offset_of(r) - Len(head_of(r)))
               \o [i \in 1..data_len_of(r) |-> 7]

HeaderRecipes ==
    {Recipe(h, c[1], c[2], "u32", 0, "f32", 0) :
        h \in Hypotheses, c \in {<<0, 0>>, <<1, 0>>, <<0, 1>>}}
    \cup {Recipe(h, c[1], c[2], "u32", 0, "f32", 0) :
            h \in {g \in Hypotheses : g.version # 1}, c \in {<<-1, 0>>, <<0, -1>>}}

KVRecipes ==
    {Recipe(h, 0, k * records_per(kind), kind, k, "f32", 0) :
        h \in Hypotheses, kind \in KVKinds, k \in 1..MaxKV}

TensorRecipes ==
    {Recipe(h, k, 0, "u32", 0, kind, k) :
        h \in Hypotheses, kind \in TensorKinds, k \in 1..MaxTensors}

Recipes == HeaderRecipes \cup KVRecipes \cup TensorRecipes

\* The recipes of well-formed files: true counts, records that decode.
WellFormed ==
    {r \in Recipes :
        /\ r.n_tensors = r.k_t /\ r.n_kv = r.k_kv
        /\ r.k_kv > 0 => r.kv_kind \in {"u32", "alignment", "string", "bool",
                                        "u8_array", "string_array"}
        /\ r.k_t > 0 => r.t_kind \in {"f32", "q4_0", "no_dims"}}

\* Files with GGUF magic whose version field is in 1..3 under neither reading.
UnsupportedVersionFiles ==
    {[image_of(Recipe([version |-> 1, e |-> "LE"], 0, 0, "u32", 0, "f32", 0))
        EXCEPT ![5] = vb[1], ![6] = vb[2], ![7] = vb[3], ![8] = vb[4]] :
        vb \in {<<0, 0, 0, 0>>, <<4, 0, 0, 0>>, <<0, 0, 0, 4>>, <<1, 0, 0, 1>>,
                <<2, 1, 0, 0>>}}

\* Files of another format: a valid v1 image with one magic byte changed.
ForeignFiles ==
    {[image_of(Recipe([version |-> 1, e |-> "LE"], 0, 0, "u32", 0, "f32", 0))
        EXCEPT ![i] = 103] : i \in 1..4}

\* The empty v1 little-endian file: magic, version 1, no tensors, no KV entries.
EmptyV1 == Recipe([version |-> 1, e |-> "LE"], 0, 0, "u32", 0, "f32", 0)

\* The empty v1 file padded with zero bytes to two alignment blocks (64 bytes).
PaddedFiles == {head_of(EmptyV1) \o zeros(2 * DefaultAlignment - Len(head_of(EmptyV1)))}

Files ==
    {image_of(r) : r \in Recipes} \cup UnsupportedVersionFiles \cup ForeignFiles
        \cup PaddedFiles

\* Every prefix of every file.
Buffers == UNION {{SubSeq(f, 1, n) : n \in 0..Len(f)} : f \in Files}

\* The stage lists of the command line.
StageLists == {<<"sha256", "structure">>, <<"structure">>, <<"sha256">>}

---------------------------------------------------------------------------
(* The state machine: one scan of one file.                                 *)

NoReport == new_report(0)

Init ==
    /\ buf \in Buffers
    /\ stages \in StageLists
    /\ pc = "ready"
    /\ report = NoReport
    /\ parsed = NotParsed
    /\ raised = [err |-> "none", msg |-> ""]

\* Analyzer.run(stages)
Run ==
    /\ pc = "ready"
    /\ \E r \in {run(buf, stages)} :
           /\ report' = r.rep
           /\ parsed' = r.parsed
           /\ raised' = [err |-> r.err, msg |-> r.msg]
    /\ pc' = "done"
    /\ UNCHANGED <<buf, stages>>

Next == Run

Spec == Init /\ [][Next]_vars

---------------------------------------------------------------------------
(* Properties of a finished scan.                                           *)

Done == pc = "done"

\* The scan was asked to run the structure stage, so _perform_analysis was called.
StructureStage == \E i \in 1..Len(stages) : stages[i] = "structure"

\* The report holds a failed finding named "parse".
FailedParse ==
    \E i \in 1..Len(report.findings) :
        report.findings[i].name = "parse" /\ ~report.findings[i].ok

\* The report holds exactly one finding, a failed "parse".
OnlyFailedParse ==
    /\ Len(report.findings) = 1
    /\ report.findings[1].name = "parse"
    /\ ~report.findings[1].ok

\* The first four bytes of the buffer are the literal GGUF.
HasMagic == Len(buf) >= 4 /\ SubSeq(buf, 1, 4) = <<71, 71, 85, 70>>

\* A read of the parser reached past the end of the buffer.
ReadPastEnd ==
    \/ parsed.oob
    \/ \E i \in 1..Len(parsed.mismatches) : parsed.mismatches[i].reason = "Read beyond EOF"

\* C1: whenever a read of the GGUF parser would extend past the end of the buffer,
\* the analysis ends in a reported parse failure (a failed "parse" finding) and no
\* exception leaves the analyzer.
C1_OutOfBoundsIsReported ==
    (Done /\ ReadPastEnd) => (raised.err = "none" /\ FailedParse)

\* C2: a buffer shorter than 8 bytes, or whose first 4 bytes are not GGUF, fails with
\* a hard parse error before any hypothesis is tried: no mismatch entry, no model, one
\* failed "parse" finding and an empty reason matrix.
C2_NotGGUFIsHardError ==
    (Done /\ StructureStage /\ (Len(buf) < 8 \/ ~HasMagic)) =>
        /\ parsed.err = "GGUFParseError"
        /\ parsed.mismatches = <<>>
        /\ parsed.model = <<>>
        /\ raised.err = "none"
        /\ OnlyFailedParse
        /\ report.reason_matrix = <<>>

\* A file of at least 8 bytes with a foreign magic was scanned and reported.
C2_Witness ==
    /\ Done /\ StructureStage
    /\ Len(buf) >= 8 /\ ~HasMagic
    /\ parsed.err = "GGUFParseError" /\ OnlyFailedParse

\* The outcome of decoding the buffer under its i-th version reading (1: LE, 2: BE).
reading(i) == IF i = 1 THEN version_le(buf) ELSE version_be(buf)

endian_of(i) == IF i = 1 THEN "LE" ELSE "BE"

decode(i) == parse_by_version(buf, Len(buf), reading(i), endian_of(i))

\* The decode under the i-th reading is rejected: a parse error, or a read past the end.
Rejected(i) == decode(i).err = "GGUFParseError" \/ decode(i).oob

\* The readings that are tried: the plausible ones, up to the first that is not
\* rejected.
Tried(i) ==
    /\ plausible(reading(i))
    /\ \A j \in 1..(i - 1) : plausible(reading(j)) => Rejected(j)

mismatch_name(i) == "v" \o ToString(reading(i)) \o "-" \o endian_of(i)

\* C3: every tried hypothesis whose decode is rejected leaves exactly one mismatch
\* entry named v{version}-{endianness}; when no hypothesis is accepted the report holds
\* a failed "parse" finding and one reason-matrix entry "gguf v{version}-{endianness}"
\* per mismatch, in trial order.
C3_RejectedHypothesisIsMismatch ==
    (Done /\ StructureStage /\ Len(buf) >= 8 /\ HasMagic) =>
        \A i \in 1..2 :
            (Tried(i) /\ Rejected(i)) =>
                /\ raised.err = "none"
                /\ Cardinality({k \in 1..Len(parsed.mismatches) :
                                   parsed.mismatches[k].version = mismatch_name(i)}) = 1
                /\ parsed.model = <<>> =>
                       /\ FailedParse
                       /\ Len(report.reason_matrix) = Len(parsed.mismatches)
                       /\ \A k \in 1..Len(parsed.mismatches) :
                              report.reason_matrix[k] =
                                  [target |-> "gguf " \o parsed.mismatches[k].version,
                                   reason |-> parsed.mismatches[k].reason]

\* C4: a buffer with GGUF magic whose version field is outside 1..3 under both
\* readings gives no model and exactly one mismatch entry, which reports both raw
\* version values and the reason "Unsupported version field; not in {1,2,3}".
C4_UnsupportedVersion ==
    (/\ Done /\ StructureStage /\ Len(buf) >= 8 /\ HasMagic
     /\ \A i \in 1..2 : reading(i) < 1 \/ reading(i) > 3) =>
        /\ parsed.err = "none"
        /\ parsed.model = <<>>
        /\ parsed.mismatches =
               <<[version |-> "LE=" \o ToString(version_le(buf)) \o "/BE="
                                  \o ToString(version_be(buf)),
                  reason |-> "Unsupported version field; not in {1,2,3}"]>>

\* A file with GGUF magic and version 4 (little-endian) was scanned.
C4_Witness ==
    /\ Done /\ StructureStage /\ Len(buf) >= 8 /\ HasMagic
    /\ version_le(buf) = 4 /\ version_be(buf) > 3
    /\ Len(parsed.mismatches) = 1 /\ parsed.model = <<>>

\* The bytes of each well-formed file, with the end of its tensor-info section and
\* the offset of its data section.
FileTable ==
    [r \in WellFormed |->
        [image |-> image_of(r), head_len |-> Len(head_of(r)),
         data_offset |-> data_offset_of(r)]]

\* The buffer holds the whole image of the well-formed recipe r.
IsFile(r) == buf = FileTable[r].image

\* The parser returned a model.
Accepted == parsed.err = "none" /\ parsed.model # <<>>

\* C5: for a valid file (alignment 32 or 64) the parser returns a model whose
\* data_offset is the smallest multiple of the alignment that is not below the end of
\* the tensor-info section.
C5_DataOffsetIsAlignedEnd ==
    (Done /\ StructureStage) =>
        \A r \in WellFormed :
            IsFile(r) => (Accepted /\ parsed.model[1].data_offset = FileTable[r].data_offset)

\* The buffer is a file without KV entries cut inside the padding that precedes its
\* data section: the decode reaches the data-offset check with an offset past the end.
CutInPadding(r) ==
    /\ r.k_kv = 0
    /\ FileTable[r].head_len <= Len(buf) /\ Len(buf) < FileTable[r].data_offset
    /\ buf = SubSeq(FileTable[r].image, 1, Len(buf))

DataOffsetFindings ==
    {i \in 1..Len(report.findings) :
        report.findings[i].name = "structural_integrity:data_offset_bounds"}

C7_AlignmentFromKV ==
    (Done /\ StructureStage) =>
        \A r \in WellFormed :
            (IsFile(r) /\ r.k_kv > 0) =>
                (Accepted /\ parsed.model[1].alignment = alignment_of(r))

\* The tensor_layout findings of the report, in order.
LayoutFindings ==
    SelectSeq(report.findings, LAMBDA f : f.context.kind = "tensor")

\* C8: each tensor of a valid file gets one layout finding, which is ok exactly when
\* the tensor is in bounds, of a registered type, of an element count that is a
\* multiple of the block size, and as large on disk as expected (the 16-byte f32
\* tensors); the block type with 6 elements reports its expected size as N/A.
C8_TensorLayoutFinding ==
    (Done /\ StructureStage) =>
        \A r \in WellFormed :
            (IsFile(r) /\ r.k_t > 0) =>
                /\ Len(LayoutFindings) = r.k_t
                /\ \A j \in 1..Len(LayoutFindings) :
                       /\ LayoutFindings[j].ok = (r.t_kind = "f32")
                       /\ r.t_kind = "q4_0" =>
                              LayoutFindings[j].context.expected = "N/A"

CoverageFindings ==
    SelectSeq(report.findings,
              LAMBDA f : f.name = "structural_integrity:file_address_space_boundary")

\* C9: for a file whose f32 tensors lie back to back and end at the end of the file
\* the full-coverage finding is true; for the same file less its last byte it is false.
C9_FullCoverage ==
    (Done /\ StructureStage) =>
        \A r \in WellFormed :
            (r.k_t > 0 /\ r.t_kind = "f32") =>
                /\ IsFile(r) => (Len(CoverageFindings) = 1 /\ CoverageFindings[1].ok)
                /\ buf = SubSeq(FileTable[r].image, 1, Len(FileTable[r].image) - 1) =>
                       (Len(CoverageFindings) = 1 /\ ~CoverageFindings[1].ok)

\* C10: the scan of a valid file completes by appending findings and raises nothing.
C10_VerificationNeverRaises ==
    (Done /\ StructureStage) =>
        \A r \in WellFormed :
            IsFile(r) => (raised.err = "none" /\ report.findings # <<>>)

\* The findings of the structural-integrity group that precede the tensor loop.
StructuralFindings ==
    SelectSeq(report.findings,
              LAMBDA f : f.name \in {"structural_integrity:magic_version",
                                     "structural_integrity:Magic_Bytes",
                                     "structural_integrity:GGUF_Header",
                                     "structural_integrity:KV_Store",
                                     "structural_integrity:Tensor_Info",
                                     "structural_integrity:metadata_offset_bounds",
                                     "structural_integrity:alignment_power_of_two",
                                     "structural_integrity:data_offset_bounds"})

KVFindings == SelectSeq(report.findings, LAMBDA f : f.context.kind = "kv")

\* C11: after a run with the structure stage on a valid file with N tensors and K
\* distinct KV keys, the report holds the structural-integrity findings, exactly N
\* tensor_layout findings and exactly K kv_analysis findings.
C11_VerificationRunsAfterParse ==
    (Done /\ StructureStage) =>
        \A r \in WellFormed :
            IsFile(r) =>
                /\ Accepted
                /\ Len(StructuralFindings) = 8
                /\ Len(LayoutFindings) = r.k_t
                /\ Len(KVFindings) = (IF r.k_kv > 0 THEN 1 ELSE 0)

---------------------------------------------------------------------------
(* Properties of the KV analysis.                                           *)

\* The file with one unit of each KV kind, per version and byte order.
KVFile ==
    [h \in Hypotheses |->
        [kind \in KVKinds |->
            image_of(Recipe(h, 0, records_per(kind), kind, 1, "f32", 0))]]

\* The file with one tensor record whose name is not UTF-8.
BadNameFile ==
    [h \in Hypotheses |-> image_of(Recipe(h, 1, 0, "u32", 0, "bad_utf8_name", 1))]

\* The kv_analysis findings for the key, in order.
FindingsFor(key) ==
    SelectSeq(report.findings, LAMBDA f : f.context.kind = "kv" /\ f.context.key = key)

HasSubCheck(f, name, status) ==
    \E i \in 1..Len(f.context.sub_checks) :
        /\ f.context.sub_checks[i].name = name
        /\ f.context.sub_checks[i].status = status

KeyA == <<97>>

\* C12: a key that occurs twice with the same decoded value yields a WARN duplicate
\* sub-check in a finding that stays ok; a key that occurs twice with differing
\* values yields a FAIL duplicate sub-check and a finding with ok = FALSE.
C12_DuplicateKeysReported ==
    (Done /\ StructureStage) =>
        \A h \in Hypotheses :
            /\ buf = KVFile[h]["dup_same"] =>
                   \E i \in 1..Len(FindingsFor(KeyA)) :
                       /\ HasSubCheck(FindingsFor(KeyA)[i], "duplicate", "WARN")
                       /\ FindingsFor(KeyA)[i].ok
            /\ buf = KVFile[h]["dup_diff"] =>
                   \E i \in 1..Len(FindingsFor(KeyA)) :
                       /\ HasSubCheck(FindingsFor(KeyA)[i], "duplicate", "FAIL")
                       /\ ~FindingsFor(KeyA)[i].ok

ChatTemplateKey ==
    <<116, 111, 107, 101, 110, 105, 122, 101, 114, 46, 99, 104, 97, 116, 95, 116, 101,
      109, 112, 108, 97, 116, 101>>

\* C13: a tokenizer.chat_template string that contains the indicator "os.system" in
\* some letter case ("Os.System") yields a finding with ok = FALSE for that key.
C13_ChatTemplateInjectionFails ==
    (Done /\ StructureStage) =>
        \A h \in Hypotheses :
            buf = KVFile[h]["chat_injection"] =>
                \E i \in 1..Len(FindingsFor(ChatTemplateKey)) :
                    ~FindingsFor(ChatTemplateKey)[i].ok

\* The overall status of a list of sub-checks under FAIL > WARN > PASS.
Worst(sub_checks) ==
    LET statuses == {sub_checks[i].status : i \in 1..Len(sub_checks)}
    IN  IF "FAIL" \in statuses THEN "FAIL"
        ELSE IF "WARN" \in statuses THEN "WARN" ELSE "PASS"

\* C14: every KV key of a valid file gets a finding whose overall status is the
\* worst of its sub-checks and whose ok flag is FALSE exactly for FAIL; a key that
\* is merely unknown to the registry ("a") leaves its finding ok.
C14_StatusPrecedence ==
    (Done /\ StructureStage) =>
        \A r \in WellFormed :
            (IsFile(r) /\ r.k_kv > 0) =>
                /\ KVFindings # <<>>
                /\ \A i \in 1..Len(KVFindings) :
                       /\ KVFindings[i].details
                              = "Overall Status: " \o Worst(KVFindings[i].context.sub_checks)
                       /\ KVFindings[i].ok
                              = (Worst(KVFindings[i].context.sub_checks) # "FAIL")
                /\ r.kv_kind = "u32" =>
                       \E i \in 1..Len(FindingsFor(KeyA)) :
                           /\ HasSubCheck(FindingsFor(KeyA)[i], "unknown_key", "WARN")
                           /\ FindingsFor(KeyA)[i].ok

GeneralNameKey == <<103, 101, 110, 101, 114, 97, 108, 46, 110, 97, 109, 101>>

BlockCountKey ==
    <<108, 108, 97, 109, 97, 46, 98, 108, 111, 99, 107, 95, 99, 111, 117, 110, 116>>

AlignmentKeyBytes ==
    <<103, 101, 110, 101, 114, 97, 108, 46, 97, 108, 105, 103, 110, 109, 101, 110, 116>>

\* The file of the kind has a finding for the key with the sub-check at the status.
Reports(h, kind, key, name, status) ==
    buf = KVFile[h][kind] =>
        \E i \in 1..Len(FindingsFor(key)) : HasSubCheck(FindingsFor(key)[i], name, status)

\* C15: a registered key declared with another type yields a FAIL spec_type
\* sub-check, a value below the registered minimum or not a multiple of the
\* registered multiple yields a FAIL range sub-check, and a key absent from the
\* registry yields a WARN unknown_key sub-check and no FAIL registry sub-check.
C15_RegistryConformance ==
    (Done /\ StructureStage) =>
        \A h \in Hypotheses :
            /\ Reports(h, "type_mismatch", GeneralNameKey, "spec_type", "FAIL")
            /\ Reports(h, "below_min", BlockCountKey, "range", "FAIL")
            /\ Reports(h, "not_multiple", AlignmentKeyBytes, "range", "FAIL")
            /\ Reports(h, "u32", KeyA, "unknown_key", "WARN")
            /\ buf = KVFile[h]["u32"] =>
                   \A i \in 1..Len(FindingsFor(KeyA)) :
                       /\ ~HasSubCheck(FindingsFor(KeyA)[i], "spec_type", "FAIL")
                       /\ ~HasSubCheck(FindingsFor(KeyA)[i], "range", "FAIL")

\* The files that hold one string that is not valid UTF-8.
HasBadUtf8String ==
    \E h \in Hypotheses :
        \/ buf = KVFile[h]["bad_utf8_key"]
        \/ buf = KVFile[h]["bad_utf8_value"]
        \/ buf = BadNameFile[h]

\* C16: the scan of a file holding a key, a string value or a tensor name that is
\* not valid UTF-8 raises nothing and its report holds a failed finding.
C16_InvalidUtf8IsAFinding ==
    (Done /\ StructureStage /\ HasBadUtf8String) =>
        /\ raised.err = "none"
        /\ \E i \in 1..Len(report.findings) : ~report.findings[i].ok

---------------------------------------------------------------------------
(* json.loads on a str (its code points): the decoder of the standard        *)
(* library that parse_safetensors calls.  A value is JSON(t, v): t is the    *)
(* Python type ("dict", "list", "str", "int", "float", "bool", "None"); a    *)
(* dict is the sequence of its items in insertion order, a float keeps its   *)
(* lexeme.  Indices are 1-based positions in the string.                     *)

JSON(t, v) == [t |-> t, v |-> v]

JSONDecodeError(msg, p) == Raise("JSONDecodeError", msg, p, FALSE)

\* An int literal beyond this magnitude is kept as this magnitude: the files
\* explored are smaller, so every comparison the analysis makes is unchanged.
MaxInt == 1000000

WHITESPACE == {32, 9, 10, 13}

at(s, p) == IF p >= 1 /\ p <= Len(s) THEN s[p] ELSE -1

\* The first position from p on (the end of the string included) whose character
\* is not in the set.
first_outside(s, p, set) ==
    CHOOSE j \in p..(Len(s) + 1) :
        at(s, j) \notin set /\ \A k \in p..(j - 1) : at(s, k) \in set

skip_whitespace(s, p) == IF p > Len(s) THEN p ELSE first_outside(s, p, WHITESPACE)

IsDigit(c) == c >= 48 /\ c <= 57

skip_digits(s, p) == IF p > Len(s) THEN p ELSE first_outside(s, p, 48..57)

\* The first position from p on that holds a quote, a backslash or a control
\* character, or is the end of the string.
plain_end(s, p) ==
    CHOOSE j \in p..(Len(s) + 1) :
        /\ (j = Len(s) + 1 \/ s[j] < 32 \/ s[j] \in {34, 92})
        /\ \A k \in p..(j - 1) : s[k] >= 32 /\ s[k] \notin {34, 92}

hex_value(c) ==
    IF IsDigit(c) THEN c - 48
    ELSE IF c >= 65 /\ c <= 70 THEN c - 55
    ELSE IF c >= 97 /\ c <= 102 THEN c - 87
    ELSE -1

\* The value of the four hex digits at p, -1 when they are not four hex digits
\* followed by one more character.
hex4(s, p) ==
    IF p + 4 <= Len(s) /\ \A k \in 0..3 : hex_value(at(s, p + k)) >= 0
    THEN ((hex_value(s[p]) * 16 + hex_value(s[p + 1])) * 16 + hex_value(s[p + 2])) * 16
         + hex_value(s[p + 3])
    ELSE -1

BACKSLASH ==
    (34 :> 34) @@ (92 :> 92) @@ (47 :> 47) @@ (98 :> 8) @@ (102 :> 12) @@
    (110 :> 10) @@ (114 :> 13) @@ (116 :> 9)

IsHighSurrogate(c) == c >= 55296 /\ c <= 56319

IsLowSurrogate(c) == c >= 56320 /\ c <= 57343

\* The escape sequence at p (a backslash): its character and the position after it.
escape(s, p) ==
    IF at(s, p + 1) = -1 THEN JSONDecodeError("Unterminated string starting at", p)
    ELSE IF at(s, p + 1) \in DOMAIN BACKSLASH THEN Ok(BACKSLASH[at(s, p + 1)], p + 2)
    ELSE IF at(s, p + 1) # 117 THEN JSONDecodeError("Invalid \\escape", p)
    ELSE IF hex4(s, p + 2) = -1 THEN JSONDecodeError("Invalid \\uXXXX escape", p + 1)
    ELSE IF IsHighSurrogate(hex4(s, p + 2)) /\ at(s, p + 6) = 92 /\ at(s, p + 7) = 117
                                            /\ p + 12 <= Len(s)
    THEN (IF hex4(s, p + 8) = -1
          THEN JSONDecodeError("Invalid \\uXXXX escape", p + 7)
          ELSE IF IsLowSurrogate(hex4(s, p + 8))
          THEN Ok(65536 + (hex4(s, p + 2) - 55296) * 1024 + (hex4(s, p + 8) - 56320),
                  p + 12)
          ELSE Ok(hex4(s, p + 2), p + 6))
    ELSE Ok(hex4(s, p + 2), p + 6)

\* scanstring, strict: p is the position after the opening quote.
RECURSIVE scanstring(_, _, _)
scanstring(s, p, acc) ==
    IF at(s, p) = -1 THEN JSONDecodeError("Unterminated string starting at", p)
    ELSE IF at(s, p) = 34 THEN Ok(acc, p + 1)
    ELSE IF at(s, p) < 32 THEN JSONDecodeError("Invalid control character at", p)
    ELSE IF at(s, p) # 92
    THEN scanstring(s, plain_end(s, p), acc \o SubSeq(s, p, plain_end(s, p) - 1))
    ELSE Bind(escape(s, p), LAMBDA c : scanstring(s, c.off, Append(acc, c.v)))

RECURSIVE digits_value(_, _)
digits_value(ds, acc) ==
    IF ds = <<>> THEN acc
    ELSE digits_value(Tail(ds),
                      IF acc * 10 + (Head(ds) - 48) > MaxInt THEN MaxInt
                      ELSE acc * 10 + (Head(ds) - 48))

\* The end of an exponent part starting at p, p itself when there is none.
exponent_end(s, p) ==
    IF at(s, p) \in {101, 69}
    THEN With(IF at(s, p + 1) \in {45, 43} THEN p + 2 ELSE p + 1, LAMBDA q :
              IF skip_digits(s, q) > q THEN skip_digits(s, q) ELSE p)
    ELSE p

\* The end of the integer part whose first digit is at p0.
int_end(s, p0) == IF at(s, p0) = 48 THEN p0 + 1 ELSE skip_digits(s, p0 + 1)

\* The end of a fraction part starting at p, p itself when there is none.
frac_end(s, p) ==
    IF at(s, p) = 46 /\ IsDigit(at(s, p + 1)) THEN skip_digits(s, p + 2) ELSE p

\* The number whose integer part starts at p0 (after the sign, if any).
number_at(s, start, p0) ==
    IF exponent_end(s, frac_end(s, int_end(s, p0))) = int_end(s, p0)
    THEN Ok(JSON("int", (IF p0 > start THEN -1 ELSE 1)
                            * digits_value(SubSeq(s, p0, int_end(s, p0) - 1), 0)),
            int_end(s, p0))
    ELSE Ok(JSON("float",
                 SubSeq(s, start, exponent_end(s, frac_end(s, int_end(s, p0))) - 1)),
            exponent_end(s, frac_end(s, int_end(s, p0))))

\* _match_number: -?(0|[1-9][0-9]*)(\.[0-9]+)?([eE][-+]?[0-9]+)?
match_number(s, start) ==
    IF ~IsDigit(at(s, IF at(s, start) = 45 THEN start + 1 ELSE start))
    THEN JSONDecodeError("Expecting value", start)
    ELSE number_at(s, start, IF at(s, start) = 45 THEN start + 1 ELSE start)

\* The string holds the literal at p.
literal(s, p, lit) == p + Len(lit) - 1 <= Len(s) /\ SubSeq(s, p, p + Len(lit) - 1) = lit

Infinity == <<73, 110, 102, 105, 110, 105, 116, 121>>

\* scan_once, the object loop and the array loop of the scanner.
RECURSIVE scan_once(_, _)
RECURSIVE parse_object(_, _, _)
RECURSIVE parse_array(_, _, _)

\* The value after the ':' expected at q, and the position of what follows it.
member_value(s, key, q) ==
    IF at(s, q) # 58 THEN JSONDecodeError("Expecting ':' delimiter", q)
    ELSE Bind(scan_once(s, skip_whitespace(s, q + 1)), LAMBDA val :
              Ok([key |-> key, value |-> val.v], skip_whitespace(s, val.off)))

\* One "name": value pair: p is where the property name must start.
member(s, p) ==
    IF at(s, p) # 34
    THEN JSONDecodeError("Expecting property name enclosed in double quotes", p)
    ELSE Bind(scanstring(s, p + 1, <<>>), LAMBDA key :
              member_value(s, key.v, skip_whitespace(s, key.off)))

\* One array element at p, and the position of what follows it.
element(s, p) ==
    Bind(scan_once(s, p), LAMBDA val : Ok(val.v, skip_whitespace(s, val.off)))

scan_once(s, p) ==
    CASE at(s, p) = 34 ->
             Bind(scanstring(s, p + 1, <<>>), LAMBDA r : Ok(JSON("str", r.v), r.off))
      [] at(s, p) = 123 /\ at(s, skip_whitespace(s, p + 1)) = 125 ->
             Ok(JSON("dict", <<>>), skip_whitespace(s, p + 1) + 1)
      [] at(s, p) = 123 /\ at(s, skip_whitespace(s, p + 1)) # 125 ->
             parse_object(s, skip_whitespace(s, p + 1), <<>>)
      [] at(s, p) = 91 /\ at(s, skip_whitespace(s, p + 1)) = 93 ->
             Ok(JSON("list", <<>>), skip_whitespace(s, p + 1) + 1)
      [] at(s, p) = 91 /\ at(s, skip_whitespace(s, p + 1)) # 93 ->
             parse_array(s, skip_whitespace(s, p + 1), <<>>)
      [] literal(s, p, <<110, 117, 108, 108>>) -> Ok(JSON("None", 0), p + 4)
      [] literal(s, p, <<116, 114, 117, 101>>) -> Ok(JSON("bool", TRUE), p + 4)
      [] literal(s, p, <<102, 97, 108, 115, 101>>) -> Ok(JSON("bool", FALSE), p + 5)
      [] literal(s, p, <<78, 97, 78>>) -> Ok(JSON("float", <<78, 97, 78>>), p + 3)
      [] literal(s, p, Infinity) -> Ok(JSON("float", Infinity), p + 8)
      [] literal(s, p, <<45>> \o Infinity) -> Ok(JSON("float", <<45>> \o Infinity), p + 9)
      [] OTHER -> match_number(s, p)

\* The members from p on; a repeated name keeps its first place and its last value.
parse_object(s, p, pairs) ==
    Bind(member(s, p), LAMBDA m :
        IF at(s, m.off) = 125 THEN Ok(JSON("dict", dict_set(pairs, m.v)), m.off + 1)
        ELSE IF at(s, m.off) # 44 THEN JSONDecodeError("Expecting ',' delimiter", m.off)
        ELSE parse_object(s, skip_whitespace(s, m.off + 1), dict_set(pairs, m.v)))

\* The elements from p on.
parse_array(s, p, values) ==
    Bind(element(s, p), LAMBDA el :
        IF at(s, el.off) = 93 THEN Ok(JSON("list", Append(values, el.v)), el.off + 1)
        ELSE IF at(s, el.off) # 44 THEN JSONDecodeError("Expecting ',' delimiter", el.off)
        ELSE parse_array(s, skip_whitespace(s, el.off + 1), Append(values, el.v)))

\* json.loads(s): one value between optional whitespace, nothing after it.
json_loads(s) ==
    Bind(scan_once(s, skip_whitespace(s, 1)), LAMBDA r :
        IF skip_whitespace(s, r.off) # Len(s) + 1
        THEN JSONDecodeError("Extra data", skip_whitespace(s, r.off))
        ELSE r)

---------------------------------------------------------------------------
(* parse_safetensors (formats/safetensors.py)                               *)

SafeTensorsParseError(msg) == Raise("SafeTensorsParseError", msg, 0, FALSE)

\* bytes.lstrip(): leading ASCII whitespace removed.
RECURSIVE lstrip(_)
lstrip(bs) ==
    IF bs # <<>> /\ Head(bs) \in {32, 9, 10, 13, 11, 12} THEN lstrip(Tail(bs)) ELSE bs

\* dict.get(key): the value, None when the key is absent.
dict_get(items, key) ==
    IF \E i \in 1..Len(items) : items[i].key = key
    THEN items[CHOOSE i \in 1..Len(items) : items[i].key = key].value
    ELSE JSON("None", 0)

\* The keys "dtype", "shape" and "data_offsets".
DtypeKey == <<100, 116, 121, 112, 101>>

ShapeKey == <<115, 104, 97, 112, 101>>

DataOffsetsKey == <<100, 97, 116, 97, 95, 111, 102, 102, 115, 101, 116, 115>>

\* isinstance(x, int): bool is a subclass of int.
is_int(x) == x.t \in {"int", "bool"}

\* int(x) for such a value: True is 1, False is 0.
int_(x) == IF x.t = "bool" THEN (IF x.v THEN 1 ELSE 0) ELSE x.v

\* all(isinstance(x, int) and x >= 0 for x in xs)
all_non_negative_ints(xs) == \A i \in 1..Len(xs) : is_int(xs[i]) /\ int_(xs[i]) >= 0

STTensor(name, dtype, shape, data_offsets) ==
    [name |-> name, dtype |-> dtype, shape |-> shape, data_offsets |-> data_offsets]

SafeTensorsModel(header_size, header_json, tensors, data_start, file_size) ==
    [header_size |-> header_size, header_json |-> header_json, tensors |-> tensors,
     data_start |-> data_start, file_size |-> file_size]

\* The body of the loop over header.items() for one item: the tensor, or the error.
st_tensor(name, meta) ==
    IF meta.t # "dict"
    THEN SafeTensorsParseError("Invalid tensor meta for " \o text(name))
    ELSE
    With(dict_get(meta.v, DtypeKey), LAMBDA dtype :
    With(dict_get(meta.v, ShapeKey), LAMBDA shape :
    With(dict_get(meta.v, DataOffsetsKey), LAMBDA offsets :
        IF ~(/\ dtype.t = "str" /\ shape.t = "list" /\ offsets.t = "list"
             /\ Len(offsets.v) = 2)
        THEN SafeTensorsParseError("Missing/invalid fields for " \o text(name))
        ELSE IF ~all_non_negative_ints(shape.v)
        THEN SafeTensorsParseError("Invalid shape for " \o text(name))
        ELSE IF ~all_non_negative_ints(offsets.v)
        THEN SafeTensorsParseError("Invalid data_offsets for " \o text(name))
        ELSE Ok(STTensor(name, dtype.v, [i \in 1..Len(shape.v) |-> int_(shape.v[i])],
                         <<int_(offsets.v[1]), int_(offsets.v[2])>>), 0))))

\* for name, meta in header.items(): ... tensors.append(STTensor(...))
RECURSIVE st_tensor_loop(_, _, _)
st_tensor_loop(items, i, tensors) ==
    IF i > Len(items) THEN Ok(tensors, 0)
    ELSE Bind(st_tensor(items[i].key, items[i].value), LAMBDA t :
              st_tensor_loop(items, i + 1, Append(tensors, t.v)))

\* buf[lo:hi] for 0 <= lo: the slice stops at the end of the buffer.
slice_to(b, lo, hi) == SubSeq(b, lo + 1, IF hi <= Len(b) THEN hi ELSE Len(b))

header_beyond_eof_mut(header_end, file_size) == FALSE

\* if header_end > file_size: raise
header_beyond_eof(header_end, file_size) == header_end > file_size

\* try: header = json.loads(raw.decode("utf-8")) except Exception as e: raise
load_header(raw) ==
    With(decode_utf8(raw), LAMBDA d :
        IF ~d.ok
        THEN SafeTensorsParseError("Invalid JSON header: 'utf-8' codec can't decode")
        ELSE With(json_loads(d.s), LAMBDA j :
                  IF j.err # "none"
                  THEN SafeTensorsParseError("Invalid JSON header: " \o j.msg)
                  ELSE j))

parse_safetensors(b, file_size) ==
    IF file_size < 8 THEN SafeTensorsParseError("File too small for safetensors header")
    ELSE
    Bind(u64(b, 0, "LE"), LAMBDA header_size :
    With(8 + header_size.v, LAMBDA header_end :
    IF header_beyond_eof(header_end, file_size)
    THEN SafeTensorsParseError("Header extends beyond EOF")
    ELSE
    With(lstrip(slice_to(b, 8, header_end)), LAMBDA raw :
    IF raw = <<>> \/ raw[1] # 123
    THEN SafeTensorsParseError("Header does not start with '{'")
    ELSE
    Bind(load_header(raw), LAMBDA header :
    Bind(st_tensor_loop(header.v.v, 1, <<>>), LAMBDA tensors :
        Ok(SafeTensorsModel(header_size.v, header.v, tensors.v, header_end, file_size),
           0))))))

---------------------------------------------------------------------------
(* SafeTensorsAnalyzer._perform_analysis                                    *)

\* sorted(model.tensors, key=lambda x: x.data_offsets[0]): stable, ascending.
insert_by_begin(order, t) ==
    LET k == Cardinality({i \in 1..Len(order) :
                              order[i].data_offsets[1] <= t.data_offsets[1]})
    IN  SubSeq(order, 1, k) \o <<t>> \o SubSeq(order, k + 1, Len(order))

RECURSIVE sorted_by_begin(_, _)
sorted_by_begin(tensors, order) ==
    IF tensors = <<>> THEN order
    ELSE sorted_by_begin(Tail(tensors), insert_by_begin(order, Head(tensors)))

\* str(shape) for a tuple of ints: "()", "(2,)", "(2, 3)"
RECURSIVE str_of_ints(_, _)
str_of_ints(xs, i) ==
    IF i > Len(xs) THEN ""
    ELSE (IF i > 1 THEN ", " ELSE "") \o ToString(xs[i]) \o str_of_ints(xs, i + 1)

str_of_tuple(xs) ==
    "(" \o str_of_ints(xs, 1) \o (IF Len(xs) = 1 THEN "," ELSE "") \o ")"

max(a, b) == IF a >= b THEN a ELSE b

overlaps_mut(abs_b, prev_end) == FALSE

\* if abs_b < prev_end: ok_order = False
overlaps(abs_b, prev_end) == abs_b < prev_end

\* for t in sorted(...): the finding of each tensor, prev_end, ok_order, ok_bounds.
RECURSIVE st_bounds_loop(_, _, _, _, _)
st_bounds_loop(rep, model, order, i, acc) ==
    IF i > Len(order) THEN [acc EXCEPT !.rep = rep]
    ELSE
    With(order[i], LAMBDA t :
    With(model.data_start + t.data_offsets[1], LAMBDA abs_b :
    With(model.data_start + t.data_offsets[2], LAMBDA abs_e :
        st_bounds_loop(
            add(rep, "tensor_bounds:" \o text(t.name),
                in_file(abs_b, abs_e, rep.file_size),
                "[" \o ToString(abs_b) \o "," \o ToString(abs_e) \o ")",
                [kind |-> "tensor", start |-> abs_b, end |-> abs_e, type |-> t.dtype,
                 dims |-> str_of_tuple(t.shape)]),
            model, order, i + 1,
            [rep |-> rep,
             prev_end |-> max(acc.prev_end, abs_e),
             ok_order |-> acc.ok_order /\ ~overlaps(abs_b, acc.prev_end),
             ok_bounds |-> acc.ok_bounds /\ in_file(abs_b, abs_e, rep.file_size)]))))

\* The findings that follow a successful parse.
st_checks(model, rep) ==
    With(add(add(add(add([rep EXCEPT !.metadata =
                              [header_size |-> model.header_size,
                               n_tensors |-> Len(model.tensors),
                               data_start |-> model.data_start]],
                         "file_layout:header_and_metadata", TRUE,
                         "SafeTensors Header (JSON)",
                         [kind |-> "region", start |-> 0, end |-> model.data_start]),
                     "structural_integrity:metadata_offset_bounds",
                     model.data_start <= rep.file_size,
                     "Metadata region: [0, " \o ToString(model.data_start) \o ")",
                     NoContext),
                 "structural_integrity:data_offset_bounds",
                 model.data_start <= rep.file_size,
                 "Tensor data region: [" \o ToString(model.data_start) \o ", "
                     \o ToString(rep.file_size) \o ")",
                 NoContext),
             "structural_integrity:header_basic", TRUE,
             "header_size=" \o ToString(model.header_size), NoContext),
         LAMBDA rep4 :
    With(st_bounds_loop(rep4, model, sorted_by_begin(model.tensors, <<>>), 1,
                        [rep |-> rep4, prev_end |-> model.data_start,
                         ok_order |-> TRUE, ok_bounds |-> TRUE]),
         LAMBDA loop :
        add(add(add(loop.rep, "tensor_order_non_overlapping", loop.ok_order,
                    "Non-overlapping, increasing offsets", NoContext),
                "tensor_bounds_all_valid", loop.ok_bounds,
                "All tensor extents lie within file", NoContext),
            "overall_result:file_coverage", loop.prev_end = rep.file_size,
            IF loop.prev_end = rep.file_size
            THEN "The end of the last tensor aligns perfectly with the end of the file."
            ELSE "There are " \o ToString(rep.file_size - loop.prev_end)
                     \o " bytes of unaccounted-for data at the end of the file.",
            NoContext)))

\* The parse result as the scan keeps it.
STParsed(p) ==
    [err |-> p.err, msg |-> p.msg, model |-> IF p.err = "none" THEN <<p.v>> ELSE <<>>]

st_perform_analysis(mv, rep) ==
    With(parse_safetensors(mv, rep.file_size), LAMBDA p :
        IF p.err = "SafeTensorsParseError"
        THEN Outcome(add_reason(add(rep, "parse", FALSE,
                                    "SafeTensors parse error: " \o p.msg, NoContext),
                                "safetensors v1", p.msg),
                     STParsed(p), "none", "")
        ELSE IF p.err # "none" THEN Outcome(rep, STParsed(p), p.err, p.msg)
        ELSE Outcome(st_checks(p.v, rep), STParsed(p), "none", ""))

\* Analyzer.run for the SafeTensors analyzer: get_format_name() is "safetensors".
st_new_report(file_size) ==
    [file_size |-> file_size, sha256_hex |-> "not_run", format |-> "safetensors",
     metadata |-> <<>>, findings |-> <<>>, reason_matrix |-> <<>>, stages_run |-> <<>>]

st_run(mv, stage_list) ==
    With(IF contains(stage_list, "sha256")
         THEN [st_new_report(Len(mv)) EXCEPT !.sha256_hex = "hexdigest"]
         ELSE st_new_report(Len(mv)), LAMBDA rep1 :
        IF contains(stage_list, "structure")
        THEN st_perform_analysis(mv, rep1)
        ELSE Outcome(rep1, NotParsed, "none", ""))

---------------------------------------------------------------------------
(* The explored SafeTensors files: an 8-byte little-endian header size, a    *)
(* JSON header written field by field, and a data section.                  *)

\* Data offsets range over 0..MaxEnd, data sections over 0..MaxEnd + 1 bytes.
MaxEnd == 3

\* The decimal digits of a natural number.
RECURSIVE Dec(_)
Dec(n) == IF n < 10 THEN <<48 + n>> ELSE Dec(n \div 10) \o <<48 + (n % 10)>>

\* "name"
Quoted(name) == <<34>> \o name \o <<34>>

\* {"k1":v1,"k2":v2,...} for a sequence of <<key, text>> pairs
RECURSIVE Members(_)
Members(pairs) ==
    IF pairs = <<>> THEN <<>>
    ELSE Quoted(pairs[1][1]) \o <<58>> \o pairs[1][2]
             \o (IF Len(pairs) > 1 THEN <<44>> ELSE <<>>) \o Members(Tail(pairs))

Object(pairs) == <<123>> \o Members(pairs) \o <<125>>

\* [b,e]
OffsetsText(b, e) == <<91>> \o Dec(b) \o <<44>> \o Dec(e) \o <<93>>

\* "F32"
GoodDtype == <<34, 70, 51, 50, 34>>

\* [2]
GoodShape == <<91, 50, 93>>

\* A tensor entry with the three fields.
Meta(dtype, shape, offsets) ==
    Object(<<<<DtypeKey, dtype>>, <<ShapeKey, shape>>, <<DataOffsetsKey, offsets>>>>)

GoodMeta(b, e) == Meta(GoodDtype, GoodShape, OffsetsText(b, e))

NameA == <<97>>

NameB == <<98>>

\* Values of a tensor entry that are not objects.
BadMetaTexts ==
    {<<49>>,                                 \* 1
     <<34, 120, 34>>,                        \* "x"
     <<91, 93>>,                             \* []
     <<110, 117, 108, 108>>,                 \* null
     <<116, 114, 117, 101>>}                 \* true

\* Values of dtype that are not strings.
BadDtypeTexts ==
    {<<49>>,                                 \* 1
     <<110, 117, 108, 108>>,                 \* null
     <<91, 34, 70, 51, 50, 34, 93>>}         \* ["F32"]

\* Values of shape that are not lists of non-negative integers.
BadShapeTexts ==
    {<<123, 125>>,                           \* {}
     <<34, 50, 34>>,                         \* "2"
     <<91, 45, 49, 93>>,                     \* [-1]
     <<91, 49, 46, 53, 93>>,                 \* [1.5]
     <<91, 34, 49, 34, 93>>,                 \* ["1"]
     <<91, 110, 117, 108, 108, 93>>,         \* [null]
     <<91, 116, 114, 117, 101, 93>>,         \* [true]
     <<91, 50, 44, 102, 97, 108, 115, 101, 93>>}\* [2,false]

\* Values of data_offsets that are not two non-negative integers.
BadOffsetsTexts ==
    {<<91, 48, 93>>,                         \* [0]
     <<91, 48, 44, 49, 44, 50, 93>>,         \* [0,1,2]
     <<91, 45, 49, 44, 48, 93>>,             \* [-1,0]
     <<91, 48, 44, 49, 46, 53, 93>>,         \* [0,1.5]
     <<34, 97, 98, 34>>,                     \* "ab"
     <<123, 125>>,                           \* {}
     <<91, 48, 44, 110, 117, 108, 108, 93>>, \* [0,null]
     <<91, 116, 114, 117, 101, 44, 49, 93>>, \* [true,1]
     <<91, 48, 44, 102, 97, 108, 115, 101, 93>>}\* [0,false]

\* Headers with one tensor entry "a" in which one field is wrong or missing.
BadFieldHeaders ==
    {Object(<<<<NameA, m>>>>) : m \in BadMetaTexts}
    \cup {Object(<<<<NameA, Meta(d, GoodShape, OffsetsText(0, 1))>>>>) :
            d \in BadDtypeTexts}
    \cup {Object(<<<<NameA, Meta(GoodDtype, s, OffsetsText(0, 1))>>>>) :
            s \in BadShapeTexts}
    \cup {Object(<<<<NameA, Meta(GoodDtype, GoodShape, o)>>>>) : o \in BadOffsetsTexts}
    \cup {Object(<<<<NameA, Object(<<<<ShapeKey, GoodShape>>,
                                      <<DataOffsetsKey, OffsetsText(0, 1)>>>>)>>>>),
          Object(<<<<NameA, Object(<<<<DtypeKey, GoodDtype>>,
                                      <<DataOffsetsKey, OffsetsText(0, 1)>>>>)>>>>),
          Object(<<<<NameA, Object(<<<<DtypeKey, GoodDtype>>,
                                      <<ShapeKey, GoodShape>>>>)>>>>),
          Object(<<<<NameA, GoodMeta(0, 1)>>, <<NameB, <<49>>>>>>)}

\* {"a":{"dtype":"F32","shape":[2],"data_offsets":[0,1]}}
OneTensorHeader == Object(<<<<NameA, GoodMeta(0, 1)>>>>)

\* The key "__metadata__" and the value {"format":"pt"}.

MetadataKey == <<95, 95, 109, 101, 116, 97, 100, 97, 116, 97, 95, 95>>

MetadataValue == <<123, 34, 102, 111, 114, 109, 97, 116, 34, 58, 34, 112, 116, 34, 125>>

\* Headers with the reserved key, alone and beside a well-formed tensor entry.
MetadataHeaders ==
    {Object(<<<<MetadataKey, MetadataValue>>>>),
     Object(<<<<MetadataKey, MetadataValue>>, <<NameA, GoodMeta(0, 1)>>>>),
     Object(<<<<NameA, GoodMeta(0, 1)>>, <<MetadataKey, MetadataValue>>>>)}

\* Every prefix of a sequence.
Prefixes(bs) == {SubSeq(bs, 1, n) : n \in 0..Len(bs)}

\* Header texts that are not one JSON object: every cut of a well-formed header,
\* other leading bytes, a trailing byte, a byte that is not UTF-8.
BrokenHeaders ==
    (Prefixes(OneTensorHeader) \ {OneTensorHeader})
    \cup {<<91, 93>>, <<32, 9>>, <<120>>, <<34, 97, 34>>,
          OneTensorHeader \o <<120>>,
          Object(<<<<<<255>>, GoodMeta(0, 1)>>>>),
          <<123, 39, 97, 39, 58, 49, 125>>}

\* Well-formed headers: no tensor, one tensor, two tensors, with every pair of
\* offsets in 0..MaxEnd; white space around the object.
LayoutHeaders ==
    {Object(<<>>)}
    \cup {Object(<<<<NameA, GoodMeta(b, e)>>>>) : b \in 0..MaxEnd, e \in 0..MaxEnd}
    \cup {Object(<<<<NameA, GoodMeta(o[1], o[2])>>, <<NameB, GoodMeta(o[3], o[4])>>>>) :
            o \in (0..MaxEnd) \X (0..MaxEnd) \X (0..MaxEnd) \X (0..MaxEnd)}
    \cup {<<32, 10, 11, 12, 13, 9>> \o OneTensorHeader \o <<32, 10>>,
          Object(<<<<NameA, GoodMeta(0, 1)>>, <<NameA, GoodMeta(1, 2)>>>>)}

\* The file: header size, header, data bytes.
st_image(header_size, header, data_len) ==
    le_bytes(header_size, 8) \o header \o [i \in 1..data_len |-> 7]

DataLens == 0..(MaxEnd + 1)

\* Files whose header size is the length of the header.
HonestFiles ==
    {st_image(Len(h), h, d) :
        h \in LayoutHeaders \cup MetadataHeaders \cup BadFieldHeaders \cup BrokenHeaders,
        d \in DataLens}

\* Files whose header size is off by one or far beyond the file, and files cut
\* inside the size field or the header.
LyingFiles ==
    {st_image(n, OneTensorHeader, d) :
        n \in {Len(OneTensorHeader) + k : k \in {-1, 1, 2}}
               \cup {65536},
        d \in DataLens}
    \cup Prefixes(st_image(Len(OneTensorHeader),
                           OneTensorHeader, 1))

SafeTensorsBuffers == HonestFiles \cup LyingFiles

---------------------------------------------------------------------------
(* The state machine of a SafeTensors scan.                                 *)

SafeTensorsInit ==
    /\ buf \in SafeTensorsBuffers
    /\ stages \in StageLists
    /\ pc = "ready"
    /\ report = NoReport
    /\ parsed = NotParsed
    /\ raised = [err |-> "none", msg |-> ""]

\* Analyzer.run(stages) of the SafeTensors analyzer
RunSafeTensors ==
    /\ pc = "ready"
    /\ \E r \in {st_run(buf, stages)} :
           /\ report' = r.rep
           /\ parsed' = r.parsed
           /\ raised' = [err |-> r.err, msg |-> r.msg]
    /\ pc' = "done"
    /\ UNCHANGED <<buf, stages>>

SafeTensorsNext == RunSafeTensors

SafeTensorsSpec == SafeTensorsInit /\ [][SafeTensorsNext]_vars

---------------------------------------------------------------------------
(* Properties of a finished SafeTensors scan.                               *)

\* The header size the first eight bytes of the file declare.
DeclaredHeaderSize == int_from_bytes(SubSeq(buf, 1, 8), "LE", FALSE)

\* The file is shorter than its size field, or than the header it declares.
HeaderDoesNotFit == Len(buf) < 8 \/ 8 + DeclaredHeaderSize > Len(buf)

SizeFindingNames ==
    {"structural_integrity:metadata_offset_bounds",
     "structural_integrity:data_offset_bounds"}

\* C17: a file shorter than 8 bytes or than 8 + header_size is a parse error with no
\* model; a returned model has data_start = 8 + header_size <= file_size; and the
\* metadata_offset_bounds and data_offset_bounds findings of a report are true.
C17_HeaderFitsInFile ==
    (Done /\ StructureStage) =>
        /\ HeaderDoesNotFit =>
               parsed.err = "SafeTensorsParseError" /\ parsed.model = <<>>
        /\ parsed.model # <<>> =>
               /\ parsed.model[1].header_size = DeclaredHeaderSize
               /\ parsed.model[1].data_start = 8 + parsed.model[1].header_size
               /\ parsed.model[1].data_start <= Len(buf)
               /\ parsed.model[1].file_size = Len(buf)
        /\ \A i \in 1..Len(report.findings) :
               report.findings[i].name \in SizeFindingNames => report.findings[i].ok

\* A model was returned for a file with data after the header, and the report holds
\* both size findings.
C17_Witness ==
    /\ Done /\ StructureStage
    /\ parsed.model # <<>>
    /\ parsed.model[1].data_start < Len(buf)
    /\ \A n \in SizeFindingNames :
           \E i \in 1..Len(report.findings) : report.findings[i].name = n

\* The file carries the header, honestly sized, before some data section.
HasHeader(h) == \E d \in DataLens : buf = st_image(Len(h), h, d)

\* C18: a header with the reserved key __metadata__ (whose value has no dtype,
\* shape or data_offsets), alone or beside a well-formed tensor entry, parses, and
\* the reserved key is no tensor of the model.
C18_ReservedMetadataKeyExempt ==
    (Done /\ StructureStage) =>
        \A h \in MetadataHeaders :
            HasHeader(h) =>
                /\ parsed.model # <<>>
                /\ \A i \in 1..Len(parsed.model[1].tensors) :
                       parsed.model[1].tensors[i].name # MetadataKey

\* The report of a failed parse: one failed parse finding, one reason, nothing else.
OnlyParseFailure ==
    /\ parsed.err = "SafeTensorsParseError" /\ parsed.model = <<>>
    /\ raised.err = "none"
    /\ Len(report.findings) = 1
    /\ report.findings[1].name = "parse" /\ ~report.findings[1].ok
    /\ Len(report.reason_matrix) = 1
    /\ report.reason_matrix[1].target = "safetensors v1"

\* C19: a header with a tensor entry that is no object, or lacks a string dtype, a
\* shape of non-negative integers or two non-negative integer data_offsets, or a
\* header text that does not begin with '{' or is not one JSON object, is a parse
\* error with no model; a field error names tensor "a"; the report holds one failed
\* parse finding, one 'safetensors v1' reason and no other finding.
C19_InvalidHeaderIsParseError ==
    (Done /\ StructureStage) =>
        /\ \A h \in BadFieldHeaders \cup BrokenHeaders : HasHeader(h) => OnlyParseFailure
        /\ \A h \in BadFieldHeaders \ {Object(<<<<NameA, GoodMeta(0, 1)>>, <<NameB, <<49>>>>>>)} :
               HasHeader(h) =>
                   parsed.msg \in {"Invalid tensor meta for a",
                                   "Missing/invalid fields for a",
                                   "Invalid shape for a",
                                   "Invalid data_offsets for a"}

\* Two tensors share at least one byte of the data section.
Overlap(t, u) ==
    /\ t.data_offsets[1] < t.data_offsets[2]
    /\ u.data_offsets[1] < u.data_offsets[2]
    /\ t.data_offsets[1] < u.data_offsets[2]
    /\ u.data_offsets[1] < t.data_offsets[2]

SomeOverlap ==
    /\ parsed.model # <<>>
    /\ \E i, j \in 1..Len(parsed.model[1].tensors) :
           i # j /\ Overlap(parsed.model[1].tensors[i], parsed.model[1].tensors[j])

\* The finding of that name is in the report with that verdict.
Verdict(name, ok) ==
    \E i \in 1..Len(report.findings) :
        report.findings[i].name = name /\ report.findings[i].ok = ok

\* 0 <= start <= end <= file_size for the tensor's own absolute extent.
OwnBounds(t) ==
    /\ 0 <= parsed.model[1].data_start + t.data_offsets[1]
    /\ t.data_offsets[1] <= t.data_offsets[2]
    /\ parsed.model[1].data_start + t.data_offsets[2] <= Len(buf)

\* C20: when two tensors of the model overlap by at least one byte,
\* tensor_order_non_overlapping is false; and every tensor's tensor_bounds finding
\* is true exactly when 0 <= start <= end <= file_size holds for that tensor.
C20_OverlapAndBoundsIndependent ==
    (Done /\ StructureStage /\ parsed.model # <<>>) =>
        /\ SomeOverlap => Verdict("tensor_order_non_overlapping", FALSE)
        /\ \A i \in 1..Len(parsed.model[1].tensors) :
               Verdict("tensor_bounds:" \o text(parsed.model[1].tensors[i].name),
                       OwnBounds(parsed.model[1].tensors[i]))

\* Two tensors overlap, the order finding is false and both tensors lie in the file.
C20_Witness ==
    /\ Done /\ StructureStage /\ SomeOverlap
    /\ Verdict("tensor_order_non_overlapping", FALSE)
    /\ Verdict("tensor_bounds:a", TRUE)
    /\ Verdict("tensor_bounds:b", TRUE)


\* The absolute end of the last tensor in ascending begin-offset order, data_start
\* when the model has no tensor.
LastTensorEnd ==
    IF parsed.model[1].tensors = <<>> THEN parsed.model[1].data_start
    ELSE parsed.model[1].data_start
             + sorted_by_begin(parsed.model[1].tensors, <<>>)
                   [Len(parsed.model[1].tensors)].data_offsets[2]

\* C21: the file_coverage finding is true exactly when the end of the last tensor
\* in ascending begin-offset order (data_start without tensors) equals file_size,
\* and a false finding's detail reports file_size minus that end.
C21_CoverageIsLastTensorEnd ==
    (Done /\ StructureStage /\ parsed.model # <<>>) =>
        \E i \in 1..Len(report.findings) :
            /\ report.findings[i].name = "overall_result:file_coverage"
            /\ report.findings[i].ok = (LastTensorEnd = Len(buf))
            /\ ~report.findings[i].ok =>
                   report.findings[i].details =
                       "There are " \o ToString(Len(buf) - LastTensorEnd)
                           \o " bytes of unaccounted-for data at the end of the file."


---------------------------------------------------------------------------
(* An AnalysisReport on its own: any sequence of add and add_reason calls.  *)

\* most findings, and most reason entries, added to one report
MaxFindings == 3
MaxReasons == 2

FindingNames == {"parse", "tensor_bounds:a"}

ReasonTargets == {"safetensors v1", "gguf v1-LE"}

ReportInit ==
    /\ buf = <<>>
    /\ stages = <<"structure">>
    /\ pc = "open"
    /\ report = st_new_report(0)
    /\ parsed = NotParsed
    /\ raised = [err |-> "none", msg |-> ""]

\* report.add(name, ok)
Add ==
    /\ pc = "open"
    /\ Len(report.findings) < MaxFindings
    /\ \E name \in FindingNames, ok \in BOOLEAN :
           report' = add(report, name, ok, "", NoContext)
    /\ UNCHANGED <<buf, stages, pc, parsed, raised>>

\* report.add_reason(target, reason)
AddReason ==
    /\ pc = "open"
    /\ Len(report.reason_matrix) < MaxReasons
    /\ \E target \in ReasonTargets : report' = add_reason(report, target, "")
    /\ UNCHANGED <<buf, stages, pc, parsed, raised>>

ReportNext == Add \/ AddReason

ReportSpec == ReportInit /\ [][ReportNext]_vars

NoFailedFinding(rep) == \A i \in 1..Len(rep.findings) : rep.findings[i].ok

\* C22: after any additions the report's ok flag is true exactly when no recorded
\* finding is false (true without findings); a step that adds a reason entry leaves
\* the flag as it was; and no step turns a false flag true again.
C22_OkIffNoFailedFinding ==
    /\ [](report_ok(report) = NoFailedFinding(report))
    /\ [][/\ report'.reason_matrix # report.reason_matrix =>
                 report_ok(report') = report_ok(report)
          /\ ~report_ok(report) => ~report_ok(report')]_vars

\* A failed finding was followed by a true one and by a reason entry.
C22_Witness ==
    /\ pc = "open"
    /\ Len(report.findings) >= 2
    /\ ~report.findings[1].ok
    /\ report.findings[Len(report.findings)].ok
    /\ report.reason_matrix # <<>>
    /\ ~report_ok(report)


---------------------------------------------------------------------------
(* The scan command on a SafeTensors file: Analyzer.run, then the console   *)
(* report, then the JSON export.                                            *)

\* The code points of the finding names the SafeTensors analyzer emits.
FixedNames ==
    {<<112, 97, 114, 115, 101>>,    \* parse
     <<102, 105, 108, 101, 95, 108, 97, 121, 111, 117, 116, 58, 104, 101, 97, 100, 101, 114, 95, 97, 110, 100, 95, 109, 101, 116, 97, 100, 97, 116, 97>>,    \* file_layout:header_and_metadata
     <<115, 116, 114, 117, 99, 116, 117, 114, 97, 108, 95, 105, 110, 116, 101, 103, 114, 105, 116, 121, 58, 109, 101, 116, 97, 100, 97, 116, 97, 95, 111, 102, 102, 115, 101, 116, 95, 98, 111, 117, 110, 100, 115>>,    \* structural_integrity:metadata_offset_bounds
     <<115, 116, 114, 117, 99, 116, 117, 114, 97, 108, 95, 105, 110, 116, 101, 103, 114, 105, 116, 121, 58, 100, 97, 116, 97, 95, 111, 102, 102, 115, 101, 116, 95, 98, 111, 117, 110, 100, 115>>,    \* structural_integrity:data_offset_bounds
     <<115, 116, 114, 117, 99, 116, 117, 114, 97, 108, 95, 105, 110, 116, 101, 103, 114, 105, 116, 121, 58, 104, 101, 97, 100, 101, 114, 95, 98, 97, 115, 105, 99>>,    \* structural_integrity:header_basic
     <<116, 101, 110, 115, 111, 114, 95, 111, 114, 100, 101, 114, 95, 110, 111, 110, 95, 111, 118, 101, 114, 108, 97, 112, 112, 105, 110, 103>>,    \* tensor_order_non_overlapping
     <<116, 101, 110, 115, 111, 114, 95, 98, 111, 117, 110, 100, 115, 95, 97, 108, 108, 95, 118, 97, 108, 105, 100>>,    \* tensor_bounds_all_valid
     <<111, 118, 101, 114, 97, 108, 108, 95, 114, 101, 115, 117, 108, 116, 58, 102, 105, 108, 101, 95, 99, 111, 118, 101, 114, 97, 103, 101>>}    \* overall_result:file_coverage

\* tensor_bounds:
TensorBoundsPrefix == <<116, 101, 110, 115, 111, 114, 95, 98, 111, 117, 110, 100, 115, 58>>

FindingNameCodes ==
    FixedNames \cup {TensorBoundsPrefix \o n : n \in {NameA, NameB}}

\* The finding name each code-point sequence spells.
NameTable == [cs \in FindingNameCodes |-> text(cs)]

\* The code points of a finding's name.
codes(name) == CHOOSE cs \in FindingNameCodes : NameTable[cs] = name

\* a < b for two Python strings, compared code point by code point
str_less(a, b) ==
    \E k \in 1..Len(b) :
        /\ k = Len(a) + 1 \/ (k <= Len(a) /\ a[k] < b[k])
        /\ \A j \in 1..(k - 1) : a[j] = b[j]

\* The findings paired with their sort keys.
keyed(findings) ==
    [i \in 1..Len(findings) |-> [key |-> codes(findings[i].name), f |-> findings[i]]]

\* findings.sort(key=lambda x: x.name): stable, ascending, in place.
insert_by_name(order, e) ==
    LET k == Cardinality({i \in 1..Len(order) : ~str_less(e.key, order[i].key)})
    IN  SubSeq(order, 1, k) \o <<e>> \o SubSeq(order, k + 1, Len(order))

RECURSIVE sort_by_name(_, _)
sort_by_name(entries, order) ==
    IF entries = <<>> THEN order
    ELSE sort_by_name(Tail(entries), insert_by_name(order, Head(entries)))

unkeyed(entries) == [i \in 1..Len(entries) |-> entries[i].f]

\* _render_generic_table(title, findings) with no custom sort order: the list it is
\* handed is sorted by name before the rows are printed.
render_generic_table(findings) == unkeyed(sort_by_name(keyed(findings), <<>>))

\* safetensors_reporter.render_report(rep): the table is handed rep.findings itself.
render_report(rep) ==
    IF rep.findings # <<>>
    THEN [rep EXCEPT !.findings = render_generic_table(rep.findings)]
    ELSE rep

\* to_json_dict(report): dataclasses become dicts, lists keep their order.
to_json_dict(rep) ==
    [file_size |-> rep.file_size, sha256_hex |-> rep.sha256_hex, format |-> rep.format,
     metadata |-> rep.metadata,
     findings |-> [i \in 1..Len(rep.findings) |->
                      [name |-> rep.findings[i].name, ok |-> rep.findings[i].ok,
                       details |-> rep.findings[i].details,
                       context |-> rep.findings[i].context]],
     reason_matrix |-> [i \in 1..Len(rep.reason_matrix) |->
                           [target |-> rep.reason_matrix[i].target,
                            reason |-> rep.reason_matrix[i].reason]],
     stages_run |-> rep.stages_run]

\* reporter.render_report(rep), reached when analyzer.run returned
RenderReport ==
    /\ pc = "done"
    /\ raised.err = "none"
    /\ report' = render_report(report)
    /\ pc' = "rendered"
    /\ UNCHANGED <<buf, stages, parsed, raised>>

\* write_json(rep, args.json_out), when --json-out was given
WriteJson ==
    /\ pc = "rendered"
    /\ pc' = "written"
    /\ UNCHANGED <<buf, stages, report, parsed, raised>>

CliNext == RunSafeTensors \/ RenderReport \/ WriteJson

CliSpec == SafeTensorsInit /\ [][CliNext]_vars

\* The findings and reasons in the order the analysis emitted them.
Emitted == st_run(buf, stages).rep

\* add and add_reason on the report at hand: one entry more at the end, every
\* earlier entry and the other sequence as before.
AppendOnly ==
    /\ \A ok \in BOOLEAN :
           /\ add(report, "parse", ok, "", NoContext).findings
                  = Append(report.findings, Finding("parse", ok, "", NoContext))
           /\ add(report, "parse", ok, "", NoContext).reason_matrix
                  = report.reason_matrix
    /\ add_reason(report, "safetensors v1", "").reason_matrix
           = Append(report.reason_matrix, [target |-> "safetensors v1", reason |-> ""])
    /\ add_reason(report, "safetensors v1", "").findings = report.findings

\* C23: the finding and reason sequences are append-only for the whole scan: add
\* and add_reason append one entry and change nothing else, the rendered report
\* still holds its findings and reasons in emission order, and the JSON written
\* after rendering lists them in that order.
C23_FindingsStayInEmissionOrder ==
    /\ AppendOnly
    /\ pc \in {"rendered", "written"} =>
           /\ report.findings = Emitted.findings
           /\ report.reason_matrix = Emitted.reason_matrix
    /\ pc = "written" =>
           /\ to_json_dict(report).findings = to_json_dict(Emitted).findings
           /\ to_json_dict(report).reason_matrix = to_json_dict(Emitted).reason_matrix


---------------------------------------------------------------------------
(* Further properties of a finished GGUF scan.                              *)

\* The empty v1 file cut at its data offset (32 bytes), and padded to 64 bytes.
EmptyAt32 == SubSeq(image_of(EmptyV1), 1, data_offset_of(EmptyV1))

EmptyAt64 == CHOOSE f \in PaddedFiles : TRUE

\* C24: the empty v1 little-endian file parses to a model whose header ends at 16
\* and whose data_offset is 32; the report has no tensor finding; the full-coverage
\* finding is true for the 32-byte file and false for the file padded to 64 bytes.
C24_EmptyFileEndToEnd ==
    (Done /\ StructureStage /\ buf \in {EmptyAt32, EmptyAt64}) =>
        /\ Accepted
        /\ parsed.model[1].tensor_info_end_offset = 16
        /\ parsed.model[1].data_offset = 32
        /\ Len(LayoutFindings) = 0
        /\ Len(CoverageFindings) = 1
        /\ CoverageFindings[1].ok = (buf = EmptyAt32)


---------------------------------------------------------------------------
(* Two runs of one analyzer on one file.                                    *)

\* MappedFile(path).__enter__(): a new read-only mapping of the file's bytes.
MappedFile_enter_mut(file) == [view |-> <<>>, size |-> 0]

MappedFile_enter(file) == [view |-> file, size |-> Len(file)]

RescanInit == Init \/ SafeTensorsInit

\* GGUFAnalyzer(path).run(stages) on a .gguf file
ScanGGUF == buf \in Buffers /\ Run

\* SafeTensorsAnalyzer(path).run(stages) on a .safetensors file
ScanSafeTensors == buf \in SafeTensorsBuffers /\ RunSafeTensors

\* analyzer.run(stages) once more, on the analyzer of the first run
ScanAgain ==
    /\ pc = "done"
    /\ \E mf \in {MappedFile_enter(buf)} :
       \E r \in {IF report.format = "safetensors" THEN st_run(mf.view, stages)
                 ELSE run(mf.view, stages)} :
           /\ report' = r.rep
           /\ parsed' = r.parsed
           /\ raised' = [err |-> r.err, msg |-> r.msg]
    /\ pc' = "again"
    /\ UNCHANGED <<buf, stages>>

RescanNext == ScanGGUF \/ ScanSafeTensors \/ ScanAgain

RescanSpec == RescanInit /\ [][RescanNext]_vars

RangeVerdict(n) == IF n < 8 \/ n % 8 # 0 THEN "FAIL" ELSE "PASS"

\* C26: for a big-endian file that declares general.alignment (64, or 12), the
\* range sub-check of that key is decided on the integer the parser took as the
\* model's alignment from the same bytes.
C26_RangeCheckUsesFileEndianness ==
    (Done /\ StructureStage) =>
        \A h \in {g \in Hypotheses : g.e = "BE"}, kind \in {"alignment", "not_multiple"} :
            buf = KVFile[h][kind] =>
                /\ Accepted
                /\ \E i \in 1..Len(FindingsFor(AlignmentKeyBytes)) :
                       HasSubCheck(FindingsFor(AlignmentKeyBytes)[i], "range",
                                   RangeVerdict(parsed.model[1].alignment))


\* C27: an array stored under tokenizer.ggml.tokens, which the registry lists with
\* type Array, is parsed and its finding carries a PASS spec_type sub-check and no
\* FAIL one.
C27_ArrayMatchesRegistryType ==
    (Done /\ StructureStage) =>
        \A h \in Hypotheses :
            buf = KVFile[h]["registry_array"] =>
                /\ Accepted
                /\ FindingsFor(TokensKey) # <<>>
                /\ \A i \in 1..Len(FindingsFor(TokensKey)) :
                       /\ HasSubCheck(FindingsFor(TokensKey)[i], "spec_type", "PASS")
                       /\ ~HasSubCheck(FindingsFor(TokensKey)[i], "spec_type", "FAIL")


\* The buffer holds the well-formed file r, whole or cut inside its data section.
ParsesAs(r) ==
    /\ FileTable[r].data_offset <= Len(buf)
    /\ buf = SubSeq(FileTable[r].image, 1, Len(buf))

\* The report holds the finding, and it is true.
HoldsTrue(name) ==
    \E i \in 1..Len(report.findings) :
        report.findings[i].name = name /\ report.findings[i].ok

\* C28: for every file with tensors that parses, whole or with its data section
\* cut short, the tensor_offsets_sorted, tensor_non_overlap and full-coverage
\* findings are in the report and true.
C28_OrderFindingsAlwaysTrue ==
    (Done /\ StructureStage) =>
        \A r \in WellFormed :
            (r.k_t > 0 /\ ParsesAs(r)) =>
                /\ Accepted
                /\ HoldsTrue("structural_integrity:tensor_offsets_sorted")
                /\ HoldsTrue("structural_integrity:tensor_non_overlap")
                /\ HoldsTrue("structural_integrity:file_address_space_boundary")


\* C29: for a buffer of at least 8 bytes with GGUF magic, at most one reading of
\* the version field is in 1..3; and when parse_gguf_versioned returns, its result
\* holds a model exactly when it holds no mismatch, and otherwise holds exactly one
\* mismatch and no endianness.
C29_AtMostOneHypothesis ==
    (Done /\ StructureStage /\ Len(buf) >= 8 /\ HasMagic) =>
        /\ ~(plausible(version_le(buf)) /\ plausible(version_be(buf)))
        /\ parsed.err = "none" =>
               /\ (parsed.model # <<>>) <=> (parsed.mismatches = <<>>)
               /\ parsed.model = <<>> =>
                      (Len(parsed.mismatches) = 1 /\ parsed.endian = "None")

\* The big-endian hypothesis was attempted and rejected, and the parser returned.
C29_Witness ==
    /\ Done /\ StructureStage /\ Len(buf) >= 8 /\ HasMagic
    /\ plausible(version_be(buf))
    /\ parsed.err = "none"
    /\ Len(parsed.mismatches) = 1
    /\ parsed.mismatches[1].version = "v" \o ToString(version_be(buf)) \o "-BE"


\* The end of the tensor-info section of the one-record KV file of the kind.
InfoEnd(h, kind) == Len(head_of(Recipe(h, 0, records_per(kind), kind, 1, "f32", 0)))

\* C30: a file whose general.alignment declares 0, or 12 (no power of two), parses
\* to a model whose data_offset is not below the end of its tensor-info section.
C30_DataStartsAfterMetadata ==
    (Done /\ StructureStage) =>
        \A h \in Hypotheses, kind \in {"zero_alignment", "not_multiple"} :
            buf = KVFile[h][kind] =>
                (Accepted /\ parsed.model[1].data_offset >= InfoEnd(h, kind))

=============================================================================
